---- MODULE Spec2Model ----
(***************************************************************************)
(* A model of the stock report generator: the persistence of analysis      *)
(* results (database_manager.py), the rule-based signal classifiers        *)
(* (analyzer.py, long_term_analyzer.py), the two indicator engines and the *)
(* single-report pipeline (generate_stock_reports.py).                     *)
(*                                                                         *)
(* Conventions.                                                            *)
(*  - A Python value is a record: None, NaN (a float "no value"),          *)
(*    Num(v) (a float, v in hundredths: 70.0 is Num(7000), 0.2 is Num(20)),*)
(*    Str(s).  A dict is a function whose DOMAIN is the set of its keys.   *)
(*  - A Japanese label is the sequence of the words it is made of, so that *)
(*    Python's substring test ('買い' in label) is Contains(label, "buy"). *)
(*    買い=buy 売り=sell 中立=neutral 強い=strong 弱い=weak 推奨=recommended     *)
(*    強気=bullish 弱気=bearish 売られすぎ=oversold 買われすぎ=overbought.       *)
(*  - The specifications share the variables: SpecStore (the database      *)
(*    manager), SpecSignals (the classifiers on arbitrary indicator maps), *)
(*    SpecLongTerm (the long-horizon engine on a growing price history),   *)
(*    SpecReport (the short-horizon engine and the report pipeline),       *)
(*    SpecStyle (the analysis by investment style and the report runs),    *)
(*    SpecAllReports (the run of all report steps) and SpecSessions        *)
(*    (callers of the data access methods, step by step).                  *)
(*    Each leaves the other variables alone.                               *)
(***************************************************************************)
EXTENDS Integers, Sequences, FiniteSets, TLC

VARIABLES
    technical_indicators,   \* rows of table technical_indicators, in insertion order
    investment_decisions,   \* rows of table investment_decisions, in insertion order
    today,                  \* date.today()
    lastSave,               \* the last save call: its arguments, outcome and the tables before it
    nCalls,                 \* number of save calls made so far
    workers,                \* per caller: the data-access call it is in, step by step, and
                            \* the database sessions it opened and has not closed
    clsInput,               \* the classifier call: which classifier, its indicator map, current_price
    signals,                \* the signal map the classifier returned
    sigPc,                  \* "idle", "called" (classifier running) or "returned"
    stock_prices_history,   \* rows of table stock_prices_history, oldest first
    feed,                   \* the market the price rows come from: stock code, price pattern,
                            \* and whether the stocks table has a row for the stock
    enginePc,               \* "idle", "insert" (a new price row is due) or "run" (an API call is due)
    lastCall,               \* the last engine or report call: its arguments and what it returned
    report_files,           \* the report files under output_dir, by file name
    seen                    \* history: the keys the long engine returned, by number of valid closes

storeVars == <<technical_indicators, investment_decisions, today, lastSave, nCalls, workers>>
signalVars == <<clsInput, signals, sigPc>>
engineVars == <<stock_prices_history, feed, enginePc, lastCall, report_files, seen>>
vars == <<storeVars, signalVars, engineVars>>

-----------------------------------------------------------------------------
(* Python values and dicts *)

None == [kind |-> "None"]
NaN == [kind |-> "nan"]
Num(x) == [kind |-> "num", v |-> x]
Str(s) == [kind |-> "str", s |-> s]

Units(n) == n * 100        \* the float n.0 in hundredths
Hundredths(n) == n         \* the float 0.0n in hundredths

EmptyMap == [k \in {} |-> None]

\* dict.get(k): None when the key is absent
Get(m, k) == IF k \in DOMAIN m THEN m[k] ELSE None

\* dict.get(k, default)
GetOr(m, k, default) == IF k \in DOMAIN m THEN m[k] ELSE default

\* float('inf') and float('-inf'), the result of a float division x / 0.0 in numpy
PosInf == [kind |-> "inf", sign |-> 1]
NegInf == [kind |-> "inf", sign |-> -1]
Ordered(a) == a.kind \in {"num", "inf"}

\* a > b, a < b, a >= b, a <= b on floats: False as soon as one side is NaN.
\* (None on either side is a TypeError; the callers below decide that first.)
Gt(a, b) ==
    \/ a.kind = "num" /\ b.kind = "num" /\ a.v > b.v
    \/ a = PosInf /\ Ordered(b) /\ b # PosInf
    \/ b = NegInf /\ Ordered(a) /\ a # NegInf
Lt(a, b) == Gt(b, a)
Ge(a, b) == Gt(a, b) \/ (Ordered(a) /\ a = b)
Le(a, b) == Ge(b, a)

\* bool(x) of a float or None: None and 0.0 are falsy, NaN is truthy
Truthy(x) == x # None /\ x # Num(0)

\* 'word' in label
Contains(label, word) == \E i \in 1..Len(label) : label[i] = word

-----------------------------------------------------------------------------
(* database_manager.py: AnalysisDataManager *)

MaxCalls == 2          \* save calls per behaviour

StockCodes == {"7203", "6758"}
\* calendar days
Dates == {1, 2}
\* the optional analysis_date argument: <<>> is None
DateArgs == {<<>>} \cup {<<d>> : d \in Dates}
\* what a caller may pass as investment_style
StyleArgs == {"short_term", "long_term", "day_trading"}
\* where the database may raise SQLAlchemyError during one call
Faults == {"none", "query", "commit"}

investment_styles == {"short_term", "long_term"}

IndicatorColumns ==
    {"current_price", "sma_5", "sma_10", "sma_20", "sma_50", "rsi_14",
     "macd_line", "macd_signal", "macd_histogram", "bb_upper", "bb_middle",
     "bb_lower", "stoch_k", "stoch_d", "volume_ratio", "price_change_1d",
     "price_change_5d", "price_change_20d", "volatility_20d"}

DecisionColumns ==
    {"decision_type", "target_price", "stop_loss", "confidence_score",
     "rsi_signal", "macd_signal", "bb_signal", "stoch_signal",
     "overall_signal", "buy_count", "sell_count", "ai_reasoning",
     "risk_assessment"}

\* indicator dicts handed to save_technical_indicators
SampleIndicators ==
    { ("current_price" :> Num(Units(1000))) @@ ("rsi_14" :> Num(Units(55)))
          @@ ("volatility_20d" :> Num(Hundredths(10))),
      ("current_price" :> Num(Units(1010))) @@ ("rsi_14" :> Num(Units(80)))
          @@ ("sma_50" :> None) @@ ("volatility_20d" :> Num(Hundredths(45))) }

\* decision dicts handed to save_investment_decision
SampleDecisions ==
    { ("overall_signal" :> Str("buy recommended")) @@ ("buy_count" :> Num(Units(2)))
          @@ ("sell_count" :> Num(Units(0))),
      ("decision_type" :> Str("analyze")) @@ ("overall_signal" :> Str("neutral"))
          @@ ("buy_count" :> Num(Units(1))) @@ ("sell_count" :> Num(Units(1))) }

\* _calculate_confidence_score, as the exact fraction num/den
\* (0.5 + 0.3 * valid/total + 0.1 if volatility_20d < 0.2, clamped to [0, 1])
ConfidenceScore(indicators) ==
    LET total == Cardinality(DOMAIN indicators)
        valid == Cardinality({k \in DOMAIN indicators : indicators[k] # None})
        volatility == Get(indicators, "volatility_20d")
        den == IF total > 0 THEN 10 * total ELSE 10
        base == 5 * (den \div 10) + (IF total > 0 THEN 3 * valid ELSE 0)
        bonus == IF volatility # None /\ Lt(volatility, Num(Hundredths(20)))
                 THEN den \div 10 ELSE 0
        score == base + bonus
    IN  [num |-> IF score > den THEN den ELSE IF score < 0 THEN 0 ELSE score,
         den |-> den]

Key(stock_code, analysis_date, investment_style) ==
    [stock_code |-> stock_code, analysis_date |-> analysis_date,
     investment_style |-> investment_style]

RowKey(row) == Key(row.stock_code, row.analysis_date, row.investment_style)

\* a duplicate check that finds nothing
ExistingNever(table, key) == FALSE

\* session.query(...).filter(stock_code ==, analysis_date ==, investment_style ==).first()
Existing(table, key) == \E i \in 1..Len(table) : RowKey(table[i]) = key

\* TechnicalIndicator(...): the columns are indicators.get(column)
IndicatorRow(key, indicators) ==
    [stock_code |-> key.stock_code, analysis_date |-> key.analysis_date,
     investment_style |-> key.investment_style,
     columns |-> [c \in IndicatorColumns |-> Get(indicators, c)],
     confidence_score |-> ConfidenceScore(indicators),
     analysis_version |-> "v1.0"]

\* InvestmentDecision(...): decision_type defaults to 'analyze'
DecisionRow(key, decision_data) ==
    [stock_code |-> key.stock_code, analysis_date |-> key.analysis_date,
     investment_style |-> key.investment_style,
     columns |-> [c \in DecisionColumns |->
                    IF c = "decision_type"
                    THEN GetOr(decision_data, c, Str("analyze"))
                    ELSE Get(decision_data, c)]]

\* The body both save methods share: style validation, duplicate check, insert and
\* commit, with rollback on a database error. Returns the table afterwards and
\* the method's return value.
SaveRow(table, key, row, fault) ==
    IF key.investment_style \notin investment_styles
    THEN [table |-> table, ret |-> FALSE]
    ELSE IF fault = "query"
    THEN [table |-> table, ret |-> FALSE]
    ELSE IF Existing(table, key)
    THEN [table |-> table, ret |-> TRUE]
    ELSE IF fault = "commit"
    THEN [table |-> table, ret |-> FALSE]
    ELSE [table |-> Append(table, row), ret |-> TRUE]

\* analysis_date = date.today() when the argument is None
AnalysisDate(dateArg) == IF dateArg = <<>> THEN today ELSE dateArg[1]

SaveRecord(op, key, data, fault, ret) ==
    [op |-> op, key |-> key, data |-> data, fault |-> fault, ret |-> ret,
     existed_ti |-> Existing(technical_indicators, key),
     existed_id |-> Existing(investment_decisions, key),
     before_ti |-> technical_indicators,
     before_id |-> investment_decisions]

save_technical_indicators(stock_code, indicators, investment_style, dateArg, fault) ==
    LET key == Key(stock_code, AnalysisDate(dateArg), investment_style)
        out == SaveRow(technical_indicators, key, IndicatorRow(key, indicators), fault)
    IN  /\ nCalls < MaxCalls
        /\ technical_indicators' = out.table
        /\ lastSave' = SaveRecord("save_technical_indicators", key, indicators, fault, out.ret)
        /\ nCalls' = nCalls + 1
        /\ UNCHANGED <<investment_decisions, today, workers>>

save_investment_decision(stock_code, decision_data, investment_style, dateArg, fault) ==
    LET key == Key(stock_code, AnalysisDate(dateArg), investment_style)
        out == SaveRow(investment_decisions, key, DecisionRow(key, decision_data), fault)
    IN  /\ nCalls < MaxCalls
        /\ investment_decisions' = out.table
        /\ lastSave' = SaveRecord("save_investment_decision", key, decision_data, fault, out.ret)
        /\ nCalls' = nCalls + 1
        /\ UNCHANGED <<technical_indicators, today, workers>>

\* midnight passes between two calls
NextDay ==
    /\ today + 1 \in Dates
    /\ today' = today + 1
    /\ UNCHANGED <<technical_indicators, investment_decisions, lastSave, nCalls, workers>>

\* the callers that may be inside a data-access call at the same time
Workers == {1, 2}

\* a caller outside any call, holding no session
IdleWorker == [pc |-> "idle", open |-> 0]

StoreInit ==
    /\ technical_indicators = <<>>
    /\ investment_decisions = <<>>
    /\ today = 1
    /\ lastSave = [op |-> "none"]
    /\ nCalls = 0
    /\ workers = [w \in Workers |-> IdleWorker]

SignalsIdle ==
    /\ clsInput = [classifier |-> "none"]
    /\ signals = EmptyMap
    /\ sigPc = "idle"

SaveIndicatorsStep ==
    \E s \in StockCodes, ind \in SampleIndicators, st \in StyleArgs,
       d \in DateArgs, f \in Faults :
        save_technical_indicators(s, ind, st, d, f)

SaveDecisionStep ==
    \E s \in StockCodes, dec \in SampleDecisions, st \in StyleArgs,
       d \in DateArgs, f \in Faults :
        save_investment_decision(s, dec, st, d, f)

EngineIdle ==
    /\ stock_prices_history = <<>>
    /\ feed = [stock_code |-> "none", shape |-> "none", listed |-> FALSE]
    /\ enginePc = "idle"
    /\ lastCall = [op |-> "none"]
    /\ report_files = {}
    /\ seen = EmptyMap

StoreNext ==
    \/ SaveIndicatorsStep /\ UNCHANGED <<signalVars, engineVars>>
    \/ SaveDecisionStep /\ UNCHANGED <<signalVars, engineVars>>
    \/ NextDay /\ UNCHANGED <<signalVars, engineVars>>

InitStore == StoreInit /\ SignalsIdle /\ EngineIdle

SpecStore == InitStore /\ [][StoreNext]_vars

-----------------------------------------------------------------------------
(* The data-access calls step by step, each in its own session, two callers *)
(* at a time                                                                *)

SaveOps == {"save_technical_indicators", "save_investment_decision"}

\* the queries of DataFetcher, and the read of AnalysisDataManager
FetcherOps == {"get_target_stock_codes", "get_stock_basic_info", "get_stock_price_history",
               "get_portfolio_holdings_info", "get_trading_plans_info"}
ManagerReadOps == {"get_historical_indicators"}

\* the table a save method writes to
TableOf(op) ==
    IF op = "save_technical_indicators" THEN technical_indicators ELSE investment_decisions

\* session = self.Session() and the first lines of a save method: the date is
\* taken, a style that is not accepted returns False through the finally
BeginSave(w, op, stock_code, data, investment_style, dateArg) ==
    /\ workers[w].pc = "idle"
    /\ nCalls < MaxCalls
    /\ nCalls' = nCalls + 1
    /\ workers' = [workers EXCEPT ![w] =
           IF investment_style \notin investment_styles
           THEN [pc |-> "returned", op |-> op,
                 key |-> Key(stock_code, AnalysisDate(dateArg), investment_style),
                 data |-> data, ret |-> FALSE, open |-> @.open]
           ELSE [pc |-> "opened", op |-> op,
                 key |-> Key(stock_code, AnalysisDate(dateArg), investment_style),
                 data |-> data, open |-> @.open + 1]]
    /\ UNCHANGED <<technical_indicators, investment_decisions, today, lastSave>>

\* the duplicate check of a save method: a database error is rolled back and
\* returns False, an existing row returns True, both through the finally
CheckExisting(w, fault) ==
    /\ workers[w].pc = "opened"
    /\ workers[w].op \in SaveOps
    /\ workers' = [workers EXCEPT ![w] =
           IF fault = "query"
           THEN [@ EXCEPT !.pc = "returned", !.open = @ - 1] @@ [ret |-> FALSE]
           ELSE IF Existing(TableOf(workers[w].op), workers[w].key)
           THEN [@ EXCEPT !.pc = "returned", !.open = @ - 1] @@ [ret |-> TRUE]
           ELSE [@ EXCEPT !.pc = "checked"]]
    /\ UNCHANGED <<technical_indicators, investment_decisions, today, lastSave, nCalls>>

\* session.add(row); session.commit(): the tables have no constraint on the key
\* besides the serial primary key, so the commit fails on a database error only
AddAndCommit(w, fault) ==
    /\ workers[w].pc = "checked"
    /\ LET op == workers[w].op
           key == workers[w].key
           row == IF op = "save_technical_indicators"
                  THEN IndicatorRow(key, workers[w].data)
                  ELSE DecisionRow(key, workers[w].data)
       IN  /\ technical_indicators' =
                 IF op = "save_technical_indicators" /\ fault # "commit"
                 THEN Append(technical_indicators, row) ELSE technical_indicators
           /\ investment_decisions' =
                 IF op = "save_investment_decision" /\ fault # "commit"
                 THEN Append(investment_decisions, row) ELSE investment_decisions
    /\ workers' = [workers EXCEPT ![w] =
           [@ EXCEPT !.pc = "returned", !.open = @ - 1] @@ [ret |-> fault # "commit"]]
    /\ UNCHANGED <<today, lastSave, nCalls>>

\* the first line of a query method: session = self.SessionLocal() (DataFetcher)
\* or self.Session() (AnalysisDataManager)
BeginQuery(w, op) ==
    /\ workers[w].pc = "idle"
    /\ nCalls < MaxCalls
    /\ nCalls' = nCalls + 1
    /\ workers' = [workers EXCEPT ![w] = [pc |-> "opened", op |-> op, open |-> @.open + 1]]
    /\ UNCHANGED <<technical_indicators, investment_decisions, today, lastSave>>

\* session.execute(query) and the rest of a query method.  DataFetcher closes
\* the session after the rows are read and not in its except branch;
\* AnalysisDataManager closes it in a finally.
ExecuteQuery(w, fault) ==
    /\ workers[w].pc = "opened"
    /\ workers[w].op \in FetcherOps \cup ManagerReadOps
    /\ workers' = [workers EXCEPT ![w] =
           [@ EXCEPT !.pc = "returned",
                     !.open = IF fault = "query" /\ workers[w].op \in FetcherOps
                              THEN @ ELSE @ - 1]
           @@ [ret |-> fault # "query"]]
    /\ UNCHANGED <<technical_indicators, investment_decisions, today, lastSave, nCalls>>

\* the caller takes the returned value and goes on
Return(w) ==
    /\ workers[w].pc = "returned"
    /\ workers' = [workers EXCEPT ![w] = [pc |-> "idle", open |-> @.open]]
    /\ UNCHANGED <<technical_indicators, investment_decisions, today, lastSave, nCalls>>

SessionsNext ==
    \/ (\E w \in Workers, op \in SaveOps, s \in StockCodes, st \in StyleArgs, d \in DateArgs :
           \E data \in (IF op = "save_technical_indicators"
                         THEN SampleIndicators ELSE SampleDecisions) :
               BeginSave(w, op, s, data, st, d))
         /\ UNCHANGED <<signalVars, engineVars>>
    \/ (\E w \in Workers, fault \in {"none", "query"} : CheckExisting(w, fault))
         /\ UNCHANGED <<signalVars, engineVars>>
    \/ (\E w \in Workers, fault \in {"none", "commit"} : AddAndCommit(w, fault))
         /\ UNCHANGED <<signalVars, engineVars>>
    \/ (\E w \in Workers, op \in FetcherOps \cup ManagerReadOps : BeginQuery(w, op))
         /\ UNCHANGED <<signalVars, engineVars>>
    \/ (\E w \in Workers, fault \in {"none", "query"} : ExecuteQuery(w, fault))
         /\ UNCHANGED <<signalVars, engineVars>>
    \/ (\E w \in Workers : Return(w)) /\ UNCHANGED <<signalVars, engineVars>>

InitSessions == StoreInit /\ SignalsIdle /\ EngineIdle

SpecSessions == InitSessions /\ [][SessionsNext]_vars

-----------------------------------------------------------------------------
(* C1 *)

RowsWithKey(table, key) == {i \in 1..Len(table) : RowKey(table[i]) = key}

AllKeys == {Key(s, d, st) : s \in StockCodes, d \in Dates, st \in StyleArgs}

\* The table lastSave wrote to, now and before the call, and whether the key was there
SavedTable == IF lastSave.op = "save_technical_indicators"
              THEN technical_indicators ELSE investment_decisions
SavedTableBefore == IF lastSave.op = "save_technical_indicators"
                    THEN lastSave.before_ti ELSE lastSave.before_id
SavedKeyExisted == IF lastSave.op = "save_technical_indicators"
                   THEN lastSave.existed_ti ELSE lastSave.existed_id

\* C1: with the save calls made one after another and an accepted style, each table
\* holds at most one row per (stock_code, analysis_date, investment_style) key, and
\* a call for a key that already has a row leaves both tables as they were and
\* returns True (the database answering the duplicate query), whatever values
\* the call carries.
C1_IdempotentSave ==
    /\ \A key \in AllKeys :
          /\ Cardinality(RowsWithKey(technical_indicators, key)) <= 1
          /\ Cardinality(RowsWithKey(investment_decisions, key)) <= 1
    /\ (lastSave.op # "none" /\ lastSave.key.investment_style \in investment_styles
            /\ SavedKeyExisted)
          => /\ technical_indicators = lastSave.before_ti
             /\ investment_decisions = lastSave.before_id
             /\ (lastSave.fault # "query" => lastSave.ret = TRUE)

\* A second write for a stored key, carrying other values than the stored row,
\* has returned True: the stored row is still the first one.
C1_Witness ==
    /\ lastSave.op = "save_technical_indicators"
    /\ lastSave.key.investment_style \in investment_styles
    /\ lastSave.existed_ti
    /\ lastSave.ret = TRUE
    /\ \E i \in RowsWithKey(technical_indicators, lastSave.key) :
          technical_indicators[i] # IndicatorRow(lastSave.key, lastSave.data)

-----------------------------------------------------------------------------
(* analyzer.py: StockAnalyzer.generate_trading_signals *)

\* signals['rsi_signal'], signals['rsi_strength']
ShortRsiSignals(indicators) ==
    LET rsi == Get(indicators, "rsi_14")
    IN  IF rsi = None THEN EmptyMap
        ELSE IF Gt(rsi, Num(Units(70)))
        THEN ("rsi_signal" :> <<"sell">>) @@ ("rsi_strength" :> <<"strong">>)
        ELSE IF Lt(rsi, Num(Units(30)))
        THEN ("rsi_signal" :> <<"buy">>) @@ ("rsi_strength" :> <<"strong">>)
        ELSE ("rsi_signal" :> <<"neutral">>) @@ ("rsi_strength" :> <<"weak">>)

\* indicators.get('macd_histogram', 0) > 0 raises TypeError when the key is there
\* with value None; Python reaches it only after line > signal (resp. line < signal)
ShortMacdRaises(indicators) ==
    LET macd_line == Get(indicators, "macd_line")
        macd_signal == Get(indicators, "macd_signal")
        macd_histogram == GetOr(indicators, "macd_histogram", Num(0))
    IN  /\ macd_line # None /\ macd_signal # None
        /\ macd_histogram = None
        /\ (Gt(macd_line, macd_signal) \/ Lt(macd_line, macd_signal))

\* signals['macd_signal']
ShortMacdSignals(indicators) ==
    LET macd_line == Get(indicators, "macd_line")
        macd_signal == Get(indicators, "macd_signal")
        macd_histogram == GetOr(indicators, "macd_histogram", Num(0))
    IN  IF macd_line = None \/ macd_signal = None THEN EmptyMap
        ELSE IF Gt(macd_line, macd_signal) /\ Gt(macd_histogram, Num(0))
        THEN "macd_signal" :> <<"buy">>
        ELSE IF Lt(macd_line, macd_signal) /\ Lt(macd_histogram, Num(0))
        THEN "macd_signal" :> <<"sell">>
        ELSE "macd_signal" :> <<"neutral">>

\* signals['bb_signal']
ShortBbSignals(indicators, current_price) ==
    LET bb_upper == Get(indicators, "bb_upper")
        bb_lower == Get(indicators, "bb_lower")
    IN  IF bb_upper = None \/ bb_lower = None \/ ~Truthy(current_price) THEN EmptyMap
        ELSE IF Ge(current_price, bb_upper)
        THEN "bb_signal" :> <<"sell", "(upper breakout)">>
        ELSE IF Le(current_price, bb_lower)
        THEN "bb_signal" :> <<"buy", "(lower breakout)">>
        ELSE "bb_signal" :> <<"neutral">>

\* signals['stoch_signal']
ShortStochSignals(indicators) ==
    LET stoch_k == Get(indicators, "stoch_k")
        stoch_d == Get(indicators, "stoch_d")
    IN  IF stoch_k = None \/ stoch_d = None THEN EmptyMap
        ELSE IF Gt(stoch_k, Num(Units(80))) /\ Gt(stoch_d, Num(Units(80)))
        THEN "stoch_signal" :> <<"sell">>
        ELSE IF Lt(stoch_k, Num(Units(20))) /\ Lt(stoch_d, Num(Units(20)))
        THEN "stoch_signal" :> <<"buy">>
        ELSE "stoch_signal" :> <<"neutral">>

\* sum(1 for signal in signals.values() if word in str(signal))
CountContaining(sig, word) == Cardinality({k \in DOMAIN sig : Contains(sig[k], word)})

\* a verdict in which a tie goes to the buy side
OverallSignalTieBuys(buy_signals, sell_signals) ==
    IF buy_signals >= sell_signals THEN <<"buy", "recommended">>
    ELSE <<"sell", "recommended">>

\* signals['overall_signal']
OverallSignal(buy_signals, sell_signals) ==
    IF buy_signals > sell_signals THEN <<"buy", "recommended">>
    ELSE IF sell_signals > buy_signals THEN <<"sell", "recommended">>
    ELSE <<"neutral">>

\* The whole method; {} when the try block raised
generate_trading_signals(indicators, current_price) ==
    IF ShortMacdRaises(indicators) THEN EmptyMap
    ELSE LET labels == ShortRsiSignals(indicators) @@ ShortMacdSignals(indicators)
                         @@ ShortBbSignals(indicators, current_price)
                         @@ ShortStochSignals(indicators)
             buy_signals == CountContaining(labels, "buy")
             sell_signals == CountContaining(labels, "sell")
         IN  labels @@ ("overall_signal" :> OverallSignal(buy_signals, sell_signals))
                    @@ ("buy_count" :> buy_signals)
                    @@ ("sell_count" :> sell_signals)

-----------------------------------------------------------------------------
(* long_term_analyzer.py: LongTermStockAnalyzer.generate_long_term_signals *)

\* signals['trend_signal']
LongTrendSignals(indicators) ==
    LET sma_50 == Get(indicators, "sma_50")
        sma_200 == Get(indicators, "sma_200")
        sma_20 == Get(indicators, "sma_20")
    IN  IF sma_50 # None /\ sma_200 # None
        THEN IF Gt(sma_50, sma_200)
             THEN "trend_signal" :> <<"golden cross", "bullish">>
             ELSE "trend_signal" :> <<"dead cross", "bearish">>
        ELSE IF sma_20 # None /\ sma_50 # None
        THEN IF Gt(sma_20, sma_50)
             THEN "trend_signal" :> <<"short-term", "golden cross", "bullish">>
             ELSE "trend_signal" :> <<"short-term", "dead cross", "bearish">>
        ELSE "trend_signal" :> <<"trend undetermined">>

\* signals['rsi_signal']
LongRsiSignals(indicators) ==
    LET rsi_26 == Get(indicators, "rsi_26")
    IN  IF rsi_26 = None THEN EmptyMap
        ELSE IF Gt(rsi_26, Num(Units(70)))
        THEN "rsi_signal" :> <<"oversold", "bullish">>
        ELSE IF Lt(rsi_26, Num(Units(30)))
        THEN "rsi_signal" :> <<"overbought", "bearish">>
        ELSE "rsi_signal" :> <<"neutral">>

\* current_price > bb_upper_50 raises TypeError when current_price is None
LongBbRaises(indicators, current_price) ==
    /\ Get(indicators, "bb_upper_50") # None
    /\ Get(indicators, "bb_lower_50") # None
    /\ current_price = None

\* signals['bb_signal']
LongBbSignals(indicators, current_price) ==
    LET bb_upper_50 == Get(indicators, "bb_upper_50")
        bb_lower_50 == Get(indicators, "bb_lower_50")
    IN  IF bb_upper_50 = None \/ bb_lower_50 = None THEN EmptyMap
        ELSE IF Gt(current_price, bb_upper_50)
        THEN "bb_signal" :> <<"above upper band", "bullish">>
        ELSE IF Lt(current_price, bb_lower_50)
        THEN "bb_signal" :> <<"below lower band", "bearish">>
        ELSE "bb_signal" :> <<"inside band", "neutral">>

\* signals['macd_signal']
LongMacdSignals(indicators) ==
    LET macd_line == Get(indicators, "macd_line_26")
        macd_signal == Get(indicators, "macd_signal_26")
    IN  IF macd_line = None \/ macd_signal = None THEN EmptyMap
        ELSE IF Gt(macd_line, macd_signal)
        THEN "macd_signal" :> <<"MACD", "bullish">>
        ELSE "macd_signal" :> <<"MACD", "bearish">>

\* for each value: bullish_count += 1 if '強気' in it, elif '弱気' in it: bearish_count += 1
BullishCount(sig) == CountContaining(sig, "bullish")
BearishCount(sig) ==
    Cardinality({k \in DOMAIN sig : ~Contains(sig[k], "bullish") /\ Contains(sig[k], "bearish")})

\* signals['overall_signal']
LongOverallSignal(bullish_count, bearish_count) ==
    IF bullish_count > bearish_count THEN <<"bullish">>
    ELSE IF bearish_count > bullish_count THEN <<"bearish">>
    ELSE <<"neutral">>

\* The whole method; {'error': str(e)} when the try block raised
generate_long_term_signals(indicators, current_price) ==
    IF LongBbRaises(indicators, current_price) THEN "error" :> <<"TypeError">>
    ELSE LET labels == LongTrendSignals(indicators) @@ LongRsiSignals(indicators)
                         @@ LongBbSignals(indicators, current_price)
                         @@ LongMacdSignals(indicators)
         IN  labels @@ ("overall_signal" :>
                           LongOverallSignal(BullishCount(labels), BearishCount(labels)))

-----------------------------------------------------------------------------
(* The classifiers called on indicator maps of any content *)

\* a key left out of the dict
Absent == [kind |-> "absent"]
Entry(k, v) == IF v = Absent THEN EmptyMap ELSE k :> v

ShortRsiInputs == {Absent, NaN, Num(Units(25)), Num(Units(30)), Num(Units(70)), Num(Units(75))}
MacdLineInputs == {Absent, Num(Hundredths(-50)), Num(0), Num(Hundredths(50))}
MacdSignalInputs == {Absent, Num(0)}
MacdHistogramInputs == {Absent, None, Num(Hundredths(-50)), Num(0), Num(Hundredths(50))}
\* (bb_upper, bb_lower)
BandInputs == {<<Absent, Absent>>, <<Num(Units(1100)), Absent>>,
               <<Num(Units(1100)), Num(Units(900))>>}
PriceInputs == {None, Num(0), Num(Units(800)), Num(Units(900)), Num(Units(1000)),
                Num(Units(1100)), Num(Units(1200))}
StochKInputs == {Absent, Num(Units(10)), Num(Units(50)), Num(Units(90))}
StochDInputs == {Absent, Num(Units(10)), Num(Units(90))}

ShortInputs ==
    { [classifier |-> "short",
       indicators |-> Entry("rsi_14", rsi) @@ Entry("macd_line", ml)
                        @@ Entry("macd_signal", ms) @@ Entry("macd_histogram", mh)
                        @@ Entry("bb_upper", bb[1]) @@ Entry("bb_lower", bb[2])
                        @@ Entry("stoch_k", sk) @@ Entry("stoch_d", sd),
       current_price |-> price] :
      rsi \in ShortRsiInputs, ml \in MacdLineInputs, ms \in MacdSignalInputs,
      mh \in MacdHistogramInputs, bb \in BandInputs, price \in PriceInputs,
      sk \in StochKInputs, sd \in StochDInputs }

\* (sma_20, sma_50, sma_200)
SmaInputs == {<<Absent, Absent, Absent>>, <<Num(Units(105)), Absent, Absent>>,
              <<Absent, Num(Units(100)), Absent>>,
              <<Num(Units(95)), Num(Units(100)), Absent>>,
              <<Num(Units(105)), Num(Units(100)), Absent>>,
              <<Absent, Num(Units(100)), Num(Units(90))>>,
              <<Absent, Num(Units(100)), Num(Units(100))>>,
              <<Absent, Num(Units(100)), Num(Units(110))>>,
              <<Absent, Num(Units(100)), None>>}
LongRsiInputs == {Absent, None, Num(Units(25)), Num(Units(30)), Num(Units(70)), Num(Units(75))}
LongHistogramInputs == {Absent, Num(Hundredths(-50)), Num(Hundredths(50))}

LongInputs ==
    { [classifier |-> "long",
       indicators |-> Entry("sma_20", sma[1]) @@ Entry("sma_50", sma[2])
                        @@ Entry("sma_200", sma[3]) @@ Entry("rsi_26", rsi)
                        @@ Entry("bb_upper_50", bb[1]) @@ Entry("bb_lower_50", bb[2])
                        @@ Entry("macd_line_26", ml) @@ Entry("macd_signal_26", ms)
                        @@ Entry("macd_histogram_26", mh),
       current_price |-> price] :
      sma \in SmaInputs, rsi \in LongRsiInputs, bb \in BandInputs,
      price \in PriceInputs, ml \in MacdLineInputs, ms \in MacdSignalInputs,
      mh \in LongHistogramInputs }

\* (the calls on these inputs, and SpecSignals, follow the risk banding below)

-----------------------------------------------------------------------------
(* C2 *)

ShortReturned == sigPc = "returned" /\ clsInput.classifier = "short" /\ signals # EmptyMap
LongReturned == sigPc = "returned" /\ clsInput.classifier = "long"
                    /\ "error" \notin DOMAIN signals

\* the labels the classifier produced, without the aggregate entries
LabelKeys == DOMAIN signals \ {"overall_signal", "buy_count", "sell_count"}
LabelIs(k, label) == k \in DOMAIN signals /\ signals[k] = label

\* C2: in the map generate_trading_signals returns, buy_count is the number of
\* produced labels that say buy, sell_count the number that say sell, and
\* overall_signal is the buy verdict iff buy_count > sell_count, the sell verdict
\* iff sell_count > buy_count and neutral iff they are equal; buy RSI + sell MACD +
\* neutral Bollinger + neutral Stochastic gives 1, 1 and neutral.
C2_OverallVerdict ==
    ShortReturned =>
        /\ signals["buy_count"] = Cardinality({k \in LabelKeys : Contains(signals[k], "buy")})
        /\ signals["sell_count"] = Cardinality({k \in LabelKeys : Contains(signals[k], "sell")})
        /\ (signals["overall_signal"] = <<"buy", "recommended">>
               <=> signals["buy_count"] > signals["sell_count"])
        /\ (signals["overall_signal"] = <<"sell", "recommended">>
               <=> signals["sell_count"] > signals["buy_count"])
        /\ (signals["overall_signal"] = <<"neutral">>
               <=> signals["buy_count"] = signals["sell_count"])
        /\ (LabelIs("rsi_signal", <<"buy">>) /\ LabelIs("macd_signal", <<"sell">>)
              /\ LabelIs("bb_signal", <<"neutral">>) /\ LabelIs("stoch_signal", <<"neutral">>))
             => /\ signals["buy_count"] = 1
                /\ signals["sell_count"] = 1
                /\ signals["overall_signal"] = <<"neutral">>

\* Scenario D has been classified: one buy, one sell, two neutral labels, a neutral verdict
C2_Witness ==
    /\ ShortReturned
    /\ LabelIs("rsi_signal", <<"buy">>) /\ LabelIs("macd_signal", <<"sell">>)
    /\ LabelIs("bb_signal", <<"neutral">>) /\ LabelIs("stoch_signal", <<"neutral">>)
    /\ signals["buy_count"] = 1 /\ signals["sell_count"] = 1
    /\ signals["overall_signal"] = <<"neutral">>

-----------------------------------------------------------------------------
(* C9 *)

\* which side of the verdict a label is counted on
CountsAsSell(k) == k \in DOMAIN signals /\ Contains(signals[k], "sell")
CountsAsBuy(k) == k \in DOMAIN signals /\ Contains(signals[k], "buy")
CountsAsBearish(k) == k \in DOMAIN signals /\ ~Contains(signals[k], "bullish")
                          /\ Contains(signals[k], "bearish")
CountsAsBullish(k) == k \in DOMAIN signals /\ Contains(signals[k], "bullish")

\* C9: in both classifiers RSI > 70 gives a label counted on the sell/bearish side,
\* RSI < 30 a label counted on the buy/bullish side, and 30 <= RSI <= 70 a label
\* counted on neither side.
C9_RsiRule ==
    /\ ShortReturned =>
          LET rsi == Get(clsInput.indicators, "rsi_14")
          IN  /\ Gt(rsi, Num(Units(70))) => CountsAsSell("rsi_signal")
              /\ Lt(rsi, Num(Units(30))) => CountsAsBuy("rsi_signal")
              /\ (Ge(rsi, Num(Units(30))) /\ Le(rsi, Num(Units(70))))
                    => ~CountsAsSell("rsi_signal") /\ ~CountsAsBuy("rsi_signal")
    /\ LongReturned =>
          LET rsi_26 == Get(clsInput.indicators, "rsi_26")
          IN  /\ Gt(rsi_26, Num(Units(70))) => CountsAsBearish("rsi_signal")
              /\ Lt(rsi_26, Num(Units(30))) => CountsAsBullish("rsi_signal")
              /\ (Ge(rsi_26, Num(Units(30))) /\ Le(rsi_26, Num(Units(70))))
                    => ~CountsAsBearish("rsi_signal") /\ ~CountsAsBullish("rsi_signal")

-----------------------------------------------------------------------------
(* C10 *)

\* C10: in both classifiers, with the MACD line and signal line present, the MACD
\* label is buy/bullish only if line > signal and histogram > 0, sell/bearish only
\* if line < signal and histogram < 0, and neutral in every other case.
C10_MacdRule ==
    /\ ShortReturned =>
          LET macd_line == Get(clsInput.indicators, "macd_line")
              macd_signal == Get(clsInput.indicators, "macd_signal")
              macd_histogram == GetOr(clsInput.indicators, "macd_histogram", Num(0))
              up == Gt(macd_line, macd_signal) /\ Gt(macd_histogram, Num(0))
              down == Lt(macd_line, macd_signal) /\ Lt(macd_histogram, Num(0))
          IN  (macd_line # None /\ macd_signal # None) =>
                 /\ CountsAsBuy("macd_signal") => up
                 /\ CountsAsSell("macd_signal") => down
                 /\ (~up /\ ~down) => LabelIs("macd_signal", <<"neutral">>)
    /\ LongReturned =>
          LET macd_line == Get(clsInput.indicators, "macd_line_26")
              macd_signal == Get(clsInput.indicators, "macd_signal_26")
              macd_histogram == Get(clsInput.indicators, "macd_histogram_26")
              up == Gt(macd_line, macd_signal) /\ Gt(macd_histogram, Num(0))
              down == Lt(macd_line, macd_signal) /\ Lt(macd_histogram, Num(0))
          IN  (macd_line # None /\ macd_signal # None) =>
                 /\ CountsAsBullish("macd_signal") => up
                 /\ CountsAsBearish("macd_signal") => down
                 /\ (~up /\ ~down) => ~CountsAsBullish("macd_signal")
                                        /\ ~CountsAsBearish("macd_signal")

-----------------------------------------------------------------------------
(* C11 *)

\* C11: in both classifiers, with both Bollinger bands present, a current price
\* >= the upper band gives a label counted on the sell/bearish side, a price <=
\* the lower band a label counted on the buy/bullish side, and a price strictly
\* between the bands a neutral label.
C11_BollingerRule ==
    /\ ShortReturned =>
          LET bb_upper == Get(clsInput.indicators, "bb_upper")
              bb_lower == Get(clsInput.indicators, "bb_lower")
              price == clsInput.current_price
          IN  (bb_upper # None /\ bb_lower # None /\ price # None) =>
                 /\ Ge(price, bb_upper) => CountsAsSell("bb_signal")
                 /\ (Le(price, bb_lower) /\ ~Ge(price, bb_upper)) => CountsAsBuy("bb_signal")
                 /\ (Lt(price, bb_upper) /\ Gt(price, bb_lower))
                       => LabelIs("bb_signal", <<"neutral">>)
    /\ LongReturned =>
          LET bb_upper_50 == Get(clsInput.indicators, "bb_upper_50")
              bb_lower_50 == Get(clsInput.indicators, "bb_lower_50")
              price == clsInput.current_price
          IN  (bb_upper_50 # None /\ bb_lower_50 # None /\ price # None) =>
                 /\ Ge(price, bb_upper_50) => CountsAsBearish("bb_signal")
                 /\ (Le(price, bb_lower_50) /\ ~Ge(price, bb_upper_50))
                       => CountsAsBullish("bb_signal")
                 /\ (Lt(price, bb_upper_50) /\ Gt(price, bb_lower_50))
                       => ~CountsAsBearish("bb_signal") /\ ~CountsAsBullish("bb_signal")

-----------------------------------------------------------------------------
(* data_fetcher.py: the price history, and the pandas operations on it *)

\* the element of a one-element set: names a value once it is computed
TheOne(set) == CHOOSE x \in set : TRUE

\* LIMIT :days of get_stock_price_history
DefaultDays == 365

NumericCols == {"high_price", "low_price", "close_price", "volume"}

\* pd.to_numeric(errors='coerce') of a table cell: NULL becomes NaN
ToNumeric(cell) == IF cell = None THEN NaN ELSE cell

\* the last n elements of a sequence
LastRows(seq, n) == IF Len(seq) <= n THEN seq ELSE SubSeq(seq, Len(seq) - n + 1, Len(seq))

\* a DataFrame is its rows, oldest first; a row is a dict of the numeric columns
DataFrame(rows) == [kind |-> "frame", rows |-> rows]
EmptyFrame == DataFrame(<<>>)

\* the rows of the stock, the latest `days` of them, as a DataFrame in date order;
\* None when there is no row or the query fails
get_stock_price_history(stock_code, days, fault) ==
    IF fault = "query" THEN None
    ELSE LET matching == SelectSeq(stock_prices_history, LAMBDA r : r.stock_code = stock_code)
         IN  TheOne({ IF rows = <<>> THEN None
                      ELSE DataFrame([i \in 1..Len(rows) |->
                                         [c \in NumericCols |-> ToNumeric(rows[i][c])]]) :
                      rows \in {LastRows(matching, days)} })

\* price_data is None or price_data.empty
NoneOrEmpty(price_data) == price_data = None \/ price_data.rows = <<>>

\* A column Series is its index (the row labels it kept, ascending) and its
\* values by position.
Series(index, values) == [kind |-> "series", index |-> index, values |-> values]

\* A Series computed from columns is only ever read at its end (.iloc[-1]): it is
\* kept as its index and its last element.  The element at any position is given
\* by the ...At operators below.
Computed(index, last) == [kind |-> "series", index |-> index, last |-> last]

len(S) == Len(S.index)

\* values.iloc[-1] of a computed series
iloc_last(S) == S.last

\* price_data[col].dropna()
dropna(price_data, col) ==
    LET rows == price_data.rows
    IN  Series(SelectSeq([i \in 1..Len(rows) |-> i], LAMBDA i : rows[i][col] # NaN),
               SelectSeq([i \in 1..Len(rows) |-> rows[i][col]], LAMBDA v : v # NaN))

SeqRange(seq) == {seq[j] : j \in 1..Len(seq)}
Max(set) == CHOOSE x \in set : \A y \in set : y <= x
Min(set) == CHOOSE x \in set : \A y \in set : x <= y
Abs(x) == IF x < 0 THEN -x ELSE x

\* the position of row label i in S, 0 when S has no such label; the index is
\* ascending and is searched from its end
PosOf(S, i) ==
    LET pos[j \in 0..len(S)] ==
            IF j = 0 THEN 0
            ELSE IF S.index[j] = i THEN j
            ELSE IF S.index[j] < i THEN 0
            ELSE pos[j - 1]
    IN  pos[len(S)]

\* the index of a binary operation on series: the sorted union of the labels
UnionIndex(index1, index2) ==
    IF index1 = index2 THEN index1
    ELSE LET labels == SeqRange(index1) \cup SeqRange(index2)
         IN  IF labels = {} THEN <<>>
             ELSE SelectSeq([i \in 1..Max(labels) |-> i], LAMBDA i : i \in labels)

\* sum of the numbers values[lo..hi], halving the range
SumRange(values, lo, hi) ==
    LET sum[a \in Int, b \in Int] ==
            IF a > b THEN 0
            ELSE IF a = b THEN values[a].v
            ELSE sum[a, (a + b) \div 2] + sum[(a + b) \div 2 + 1, b]
    IN  sum[lo, hi]

\* the largest of the numbers values[lo..hi] (lo <= hi), halving the range
MaxRange(values, lo, hi) ==
    LET largest[a \in Int, b \in Int] ==
            IF a = b THEN values[a].v
            ELSE TheOne({ IF left >= right THEN left ELSE right :
                          left \in {largest[a, (a + b) \div 2]},
                          right \in {largest[(a + b) \div 2 + 1, b]} })
    IN  largest[lo, hi]

\* a rolling window ending at position j lies within the series (a column holds
\* no NaN after dropna, so a complete window holds numbers only)
FullWindow(S, window, j) == j >= window /\ j <= len(S)

\* S.rolling(window).mean() at position j, the mean rounded down to the hundredth
MeanAt(S, window, j) ==
    IF FullWindow(S, window, j)
    THEN Num(SumRange(S.values, j - window + 1, j) \div window)
    ELSE NaN

\* S.rolling(window).min() and .max() at position j
MinAt(S, window, j) ==
    IF FullWindow(S, window, j)
    THEN Num(Min({S.values[i].v : i \in (j - window + 1)..j}))
    ELSE NaN

MaxAt(S, window, j) ==
    IF FullWindow(S, window, j)
    THEN Num(Max({S.values[i].v : i \in (j - window + 1)..j}))
    ELSE NaN

\* S.diff() at position j: the first element has no predecessor
DiffAt(S, j) ==
    IF j > 1 /\ j <= len(S) THEN Num(S.values[j].v - S.values[j - 1].v) ELSE NaN

\* the float division a / b of numpy, as a ratio in hundredths rounded down:
\* 0/0 is NaN, x/0 is an infinity, NaN on either side gives NaN
FloatDiv(a, b) ==
    IF a.kind # "num" \/ b.kind # "num" THEN NaN
    ELSE IF b.v = 0 THEN (IF a.v = 0 THEN NaN ELSE IF a.v > 0 THEN PosInf ELSE NegInf)
    ELSE IF b.v > 0 THEN Num((a.v * 100) \div b.v)
    ELSE Num(((-a.v) * 100) \div (-b.v))

-----------------------------------------------------------------------------
(* The indicator formulas (the same code in analyzer.py 98-149 and            *)
(* long_term_analyzer.py 256-311).                                            *)
(* Sums, minima, maxima and ratios are computed on the hundredths.  The       *)
(* exponentially weighted means and the standard deviations are floats the    *)
(* integers cannot reproduce: where the code computes one, the model takes    *)
(* its magnitude from a reading the environment hands to the call, and keeps  *)
(* from the code where the value is defined and what is computed from it.     *)

EwmSpans == {9, 12, 20, 26, 50, 100, 200}

Readings ==
    { [ewm |-> [span \in EwmSpans |->
                  CASE span = 9 -> Hundredths(20) [] span = 12 -> Units(105)
                    [] OTHER -> Units(104)],
       std |-> Units(2), volatility |-> Hundredths(15), annual_return |-> Hundredths(8)],
      [ewm |-> [span \in EwmSpans |->
                  CASE span = 9 -> Hundredths(-20) [] span = 12 -> Units(103)
                    [] OTHER -> Units(104)],
       std |-> Units(9), volatility |-> Hundredths(35), annual_return |-> Hundredths(-12)],
      [ewm |-> [span \in EwmSpans |-> IF span = 9 THEN 0 ELSE Units(100)],
       std |-> 0, volatility |-> 0, annual_return |-> 0] }

\* prices.rolling(window=period).mean()
_calculate_sma(prices, period) ==
    Computed(prices.index, MeanAt(prices, period, len(prices)))

\* prices.ewm(span=span).mean() at position j: defined from the first element on
EwmAt(prices, span, j, reading) ==
    IF j >= 1 /\ j <= len(prices) THEN Num(reading.ewm[span]) ELSE NaN

_calculate_ema(prices, period, reading) ==
    Computed(prices.index, EwmAt(prices, period, len(prices), reading))

\* prices.rolling(window=period).std() at position j
StdAt(prices, period, j, reading) ==
    IF FullWindow(prices, period, j) THEN Num(reading.std) ELSE NaN

\* delta.where(delta > 0, 0) and -delta.where(delta < 0, 0) at position i, with
\* delta = prices.diff(): the NaN of the first element fails the condition and
\* becomes 0
GainAt(prices, i) ==
    IF Gt(DiffAt(prices, i), Num(0)) THEN DiffAt(prices, i).v ELSE 0

LossAt(prices, i) ==
    IF Lt(DiffAt(prices, i), Num(0)) THEN -DiffAt(prices, i).v ELSE 0

\* the relative strength gain / loss itself, as a percentage
RelativeStrength[G \in Nat, L \in Nat] ==
    IF G = 0 /\ L = 0 THEN NaN
    ELSE IF L = 0 THEN PosInf
    ELSE Num((Units(100) * G) \div L)

\* 100 - 100 / (1 + gain / loss) with gain and loss the rolling means: the ratio of
\* the means is the ratio of the sums G and L, so the value is 100 G / (G + L);
\* 0/0 is NaN, G/0 is inf and gives 100
RsiValue[G \in Nat, L \in Nat] ==
    IF G = 0 /\ L = 0 THEN NaN
    ELSE IF L = 0 THEN Num(Units(100))
    ELSE Num((Units(100) * G) \div (G + L))

RelativeStrengthAt(prices, period, j) ==
    IF ~FullWindow(prices, period, j) THEN NaN
    ELSE LET gain[a \in Int, b \in Int] ==
                 IF a > b THEN 0
                 ELSE IF a = b THEN GainAt(prices, a)
                 ELSE gain[a, (a + b) \div 2] + gain[(a + b) \div 2 + 1, b]
             loss[a \in Int, b \in Int] ==
                 IF a > b THEN 0
                 ELSE IF a = b THEN LossAt(prices, a)
                 ELSE loss[a, (a + b) \div 2] + loss[(a + b) \div 2 + 1, b]
         IN  RelativeStrength[gain[j - period + 1, j], loss[j - period + 1, j]]

RsiAt(prices, period, j) ==
    IF ~FullWindow(prices, period, j) THEN NaN
    ELSE LET gain[a \in Int, b \in Int] ==
                 IF a > b THEN 0
                 ELSE IF a = b THEN GainAt(prices, a)
                 ELSE gain[a, (a + b) \div 2] + gain[(a + b) \div 2 + 1, b]
             loss[a \in Int, b \in Int] ==
                 IF a > b THEN 0
                 ELSE IF a = b THEN LossAt(prices, a)
                 ELSE loss[a, (a + b) \div 2] + loss[(a + b) \div 2 + 1, b]
         IN  RsiValue[gain[j - period + 1, j], loss[j - period + 1, j]]

_calculate_rsi(prices, period) ==
    Computed(prices.index, RsiAt(prices, period, len(prices)))

\* (macd_line, macd_signal, macd_histogram)
_calculate_macd(prices, reading) ==
    LET n == len(prices)
        ema_12 == EwmAt(prices, 12, n, reading)
        ema_26 == EwmAt(prices, 26, n, reading)
        macd_line == IF n = 0 THEN NaN ELSE Num(ema_12.v - ema_26.v)
        \* macd_line.ewm(span=9).mean()
        macd_signal == EwmAt(prices, 9, n, reading)
        macd_histogram == IF n = 0 THEN NaN ELSE Num(macd_line.v - macd_signal.v)
    IN  << Computed(prices.index, macd_line), Computed(prices.index, macd_signal),
           Computed(prices.index, macd_histogram) >>

\* long_term_analyzer.py 273-280: the same spans 12, 26 and 9
_calculate_macd_long_term(prices, reading) == _calculate_macd(prices, reading)

\* (bb_upper, sma, bb_lower)
_calculate_bollinger_bands(prices, period, reading) ==
    LET n == len(prices)
        sma == MeanAt(prices, period, n)
        std == StdAt(prices, period, n, reading)
        defined == sma.kind = "num" /\ std.kind = "num"
        bb_upper == IF defined THEN Num(sma.v + std.v * 2) ELSE NaN
        bb_lower == IF defined THEN Num(sma.v - std.v * 2) ELSE NaN
    IN  << Computed(prices.index, bb_upper), Computed(prices.index, sma),
           Computed(prices.index, bb_lower) >>

\* the value of a column at row label i, NaN when the column lacks the label
AtLabel(S, i) == IF PosOf(S, i) = 0 THEN NaN ELSE S.values[PosOf(S, i)]

\* 100 * ((close - lowest_low) / (highest_high - lowest_low)) at row label i:
\* the series are aligned on their labels, a label one of them lacks gives NaN
StochKAt(high, low, close, k_period, i) ==
    LET c == AtLabel(close, i)
        ll == IF PosOf(low, i) = 0 THEN NaN ELSE MinAt(low, k_period, PosOf(low, i))
        hh == IF PosOf(high, i) = 0 THEN NaN ELSE MaxAt(high, k_period, PosOf(high, i))
    IN  IF c.kind # "num" \/ ll.kind # "num" \/ hh.kind # "num" THEN NaN
        ELSE IF hh.v = ll.v
             THEN (IF c.v = ll.v THEN NaN ELSE IF c.v > ll.v THEN PosInf ELSE NegInf)
        ELSE IF hh.v > ll.v THEN Num((Units(100) * (c.v - ll.v)) \div (hh.v - ll.v))
        ELSE Num((Units(100) * (ll.v - c.v)) \div (ll.v - hh.v))

\* (stoch_k, stoch_d); stoch_d is the rolling mean of stoch_k over d_period
\* positions of the aligned index, NaN unless all of them are numbers
_calculate_stochastic(high, low, close, k_period, d_period) ==
    LET index == UnionIndex(UnionIndex(close.index, low.index), high.index)
        n == Len(index)
        window == [k \in 1..d_period |->
                      StochKAt(high, low, close, k_period, index[n - d_period + k])]
        stoch_k == IF n = 0 THEN NaN ELSE StochKAt(high, low, close, k_period, index[n])
        stoch_d == IF n >= d_period /\ \A k \in 1..d_period : window[k].kind = "num"
                   THEN Num(SumRange(window, 1, d_period) \div d_period)
                   ELSE NaN
    IN  << Computed(index, stoch_k), Computed(index, stoch_d) >>

\* volumes / volumes.rolling(window=period).mean()
_calculate_volume_ratio(volumes, period) ==
    LET n == len(volumes)
    IN  Computed(volumes.index,
                 IF n = 0 THEN NaN
                 ELSE FloatDiv(volumes.values[n], MeanAt(volumes, period, n)))

\* ((prices / prices.shift(period)) - 1) * 100 at position j, in hundredths
PriceChangeAt(prices, period, j) ==
    IF j <= period \/ j > len(prices) THEN NaN
    ELSE LET now == prices.values[j].v
             before == prices.values[j - period].v
         IN  IF before = 0
             THEN (IF now = 0 THEN NaN ELSE IF now > 0 THEN PosInf ELSE NegInf)
             ELSE IF before > 0 THEN Num(((now - before) * Units(100)) \div before)
             ELSE Num(((before - now) * Units(100)) \div (-before))

_calculate_price_change(prices, period) ==
    Computed(prices.index, PriceChangeAt(prices, period, len(prices)))

\* prices.pct_change().rolling(window=period).std() * sqrt(252) at position j: the
\* first return is NaN, so the first full window ends at position period + 1; a
\* return over a zero price is no number
VolatilityAt(prices, period, j, reading) ==
    IF j >= period + 1 /\ j <= len(prices)
         /\ \A i \in (j - period)..(j - 1) : prices.values[i].v # 0
    THEN Num(reading.volatility) ELSE NaN

_calculate_volatility(prices, period, reading) ==
    Computed(prices.index, VolatilityAt(prices, period, len(prices), reading))

-----------------------------------------------------------------------------
(* long_term_analyzer.py: LongTermStockAnalyzer *)

\* a Python list of floats
List(items) == [kind |-> "list", items |-> items]

\* a guard that always lets the entry in, and a guard turned around
WhenAlways(cond, entry) == entry

WhenNot(cond, entry) == IF cond THEN EmptyMap ELSE entry

\* an entry a dict gets only under a condition (if data_length >= N:)
When(cond, entry) == IF cond THEN entry ELSE EmptyMap

\* prices.rolling(window).mean().dropna() followed by len(...) > 0 and .iloc[-1]:
\* the last rolling mean that is not NaN, None when there is none.  The prices
\* hold no NaN, so it is the mean of the last window of them; it is kept exact,
\* as the sum of the window over its length.
LastValidMean(prices, window) ==
    IF len(prices) >= window
    THEN [kind |-> "mean",
          sum |-> SumRange(prices.values, len(prices) - window + 1, len(prices)),
          window |-> window]
    ELSE None

\* min(a / b * 100, 100) for a >= 0 and b > 0, in hundredths rounded down; the
\* quotient is taken digit by digit to stay within the width of the integers
CappedPercent(a, b) ==
    IF a >= b THEN Units(100)
    ELSE LET r1 == (a * 10) % b
             r2 == (r1 * 10) % b
             r3 == (r2 * 10) % b
         IN  ((a * 10) \div b) * 1000 + ((r1 * 10) \div b) * 100
                + ((r2 * 10) \div b) * 10 + ((r3 * 10) \div b)

\* a trend strength whose short average is SMA(10)
LongTrendStrengthOfTen(prices, period) ==
    IF len(prices) < period THEN Num(0)
    ELSE TheOne({ IF short = None \/ long = None THEN Num(0)
                  ELSE IF long.sum = 0 THEN (IF short.sum = 0 THEN NaN ELSE Num(Units(100)))
                  ELSE Num(CappedPercent(
                               Abs(short.sum * long.window - long.sum * short.window),
                               Abs(long.sum) * short.window)) :
                  short \in {LastValidMean(prices, 10)},
                  long \in {LastValidMean(prices, period)} })

\* abs((short - long) / long) * 100 capped at 100, 0.0 when either average is
\* missing; in hundredths, rounded down
LongTrendStrength(prices, period) ==
    IF len(prices) < period THEN Num(0)
    ELSE TheOne({ IF short = None \/ long = None THEN Num(0)
                  ELSE IF long.sum = 0 THEN (IF short.sum = 0 THEN NaN ELSE Num(Units(100)))
                  ELSE Num(CappedPercent(
                               Abs(short.sum * long.window - long.sum * short.window),
                               Abs(long.sum) * short.window)) :
                  short \in {LastValidMean(prices, 20)},
                  long \in {LastValidMean(prices, period)} })

LongTrendDirection(prices, period) ==
    IF len(prices) < period THEN Str("unknown")
    ELSE TheOne({ IF short = None \/ long = None THEN Str("unknown")
                  ELSE IF short.sum * long.window > long.sum * short.window
                       THEN Str("uptrend")
                  ELSE IF short.sum * long.window < long.sum * short.window
                       THEN Str("downtrend")
                  ELSE Str("flat") :
                  short \in {LastValidMean(prices, 20)},
                  long \in {LastValidMean(prices, period)} })

\* the k-th smallest of a sequence of numbers, k in 1..Len
KthSmallest[seq \in Seq(Int), k \in Nat] ==
    LET pivot == seq[(Len(seq) + 1) \div 2]
        less == SelectSeq(seq, LAMBDA x : x < pivot)
        same == Len(SelectSeq(seq, LAMBDA x : x = pivot))
    IN  IF k <= Len(less) THEN KthSmallest[less, k]
        ELSE IF k <= Len(less) + same THEN pivot
        ELSE KthSmallest[SelectSeq(seq, LAMBDA x : x > pivot), k - Len(less) - same]

\* Series.quantile(q) with linear interpolation, q in percent; NaN on no data
Quantile(seq, q) ==
    IF seq = <<>> THEN NaN
    ELSE LET h == (Len(seq) - 1) * q
             lo == KthSmallest[seq, h \div 100 + 1]
             hi == IF h % 100 = 0 THEN lo ELSE KthSmallest[seq, h \div 100 + 2]
         IN  Num(lo + ((h % 100) * (hi - lo)) \div 100)

\* (support_levels, resistance_levels) of the last `lookback` prices
_calculate_support_resistance(prices, lookback) ==
    IF len(prices) < lookback THEN <<List(<<>>), List(<<>>)>>
    ELSE LET tail == SubSeq(prices.values, len(prices) - lookback + 1, len(prices))
             recent_prices == [k \in 1..lookback |-> tail[k].v]
             lowest == IF lookback = 0 THEN NaN ELSE Num(Min(SeqRange(recent_prices)))
             highest == IF lookback = 0 THEN NaN ELSE Num(Max(SeqRange(recent_prices)))
         IN  << List(<<lowest, Quantile(recent_prices, 25), Quantile(recent_prices, 33)>>),
                List(<<highest, Quantile(recent_prices, 75), Quantile(recent_prices, 67)>>) >>

\* the latest value of one entry, NaN turned into None (lines 127-170)
LatestLong(values) ==
    IF values = None THEN None
    ELSE IF values.kind = "series"
         THEN (IF len(values) > 0
               THEN TheOne({IF latest_value = NaN THEN None ELSE latest_value :
                            latest_value \in {iloc_last(values)}})
               ELSE None)
    ELSE IF values.kind = "list"
         THEN (IF Len(values.items) > 0
               THEN TheOne({IF latest_value = NaN THEN None ELSE latest_value :
                            latest_value \in {values.items[Len(values.items)]}})
               ELSE None)
    ELSE IF values = NaN THEN None
    ELSE values

\* the latest value of one entry, as it is (lines 221-248)
LatestLimited(values) ==
    IF values = None THEN None
    ELSE IF values.kind = "series"
         THEN (IF len(values) > 0 THEN iloc_last(values) ELSE None)
    ELSE IF values.kind = "list"
         THEN (IF Len(values.items) > 0 THEN values.items[Len(values.items)] ELSE None)
    ELSE values

Min2(a, b) == IF a < b THEN a ELSE b

_calculate_limited_indicators(close_prices, high_prices, low_prices, volumes, data_length, reading) ==
    LET bb == _calculate_bollinger_bands(close_prices, 20, reading)
        stoch == _calculate_stochastic(high_prices, low_prices, close_prices, 14, 3)
        sr == _calculate_support_resistance(close_prices, Min2(data_length, 50))
        indicators ==
            When(data_length >= 20,
                 "sma_20" :> _calculate_sma(close_prices, 20)
                 @@ "ema_20" :> _calculate_ema(close_prices, 20, reading)
                 @@ "rsi_14" :> _calculate_rsi(close_prices, 14)
                 @@ "bb_upper_20" :> bb[1] @@ "bb_middle_20" :> bb[2]
                 @@ "bb_lower_20" :> bb[3])
            @@ When(data_length >= 14,
                    "stoch_k_14" :> stoch[1] @@ "stoch_d_14" :> stoch[2])
            @@ When(data_length >= 5,
                    "price_change_5d" :> _calculate_price_change(close_prices, 5))
            @@ When(data_length >= 10,
                    "price_change_10d" :> _calculate_price_change(close_prices, 10))
            @@ When(data_length >= 20,
                    "price_change_20d" :> _calculate_price_change(close_prices, 20)
                    @@ "trend_strength" :> LongTrendStrength(close_prices, 20)
                    @@ "trend_direction" :> LongTrendDirection(close_prices, 20))
            @@ "support_levels" :> sr[1]
            @@ "resistance_levels" :> sr[2]
    IN  TheOne({ [key \in DOMAIN items |-> LatestLimited(items[key])] :
                 items \in {indicators} })

\* a trend window that never grows beyond 100
TrendPeriodUpToHundred(data_length) == IF data_length >= 100 THEN 100 ELSE 50

\* the long trend window: 200, else 100, else 50 (lines 106-114)
TrendPeriod(data_length) ==
    IF data_length >= 200 THEN 200 ELSE IF data_length >= 100 THEN 100 ELSE 50

\* the indicators of 50 or more valid closes (lines 42-172)
LongIndicators(close_prices, high_prices, low_prices, volumes, data_length, reading) ==
        LET bb == _calculate_bollinger_bands(close_prices, 50, reading)
            macd == _calculate_macd_long_term(close_prices, reading)
            stoch == _calculate_stochastic(high_prices, low_prices, close_prices, 26, 9)
            sr == _calculate_support_resistance(close_prices, Min2(data_length, 200))
            indicators ==
                When(data_length >= 50, "sma_50" :> _calculate_sma(close_prices, 50))
                @@ When(data_length >= 100, "sma_100" :> _calculate_sma(close_prices, 100))
                @@ When(data_length >= 200, "sma_200" :> _calculate_sma(close_prices, 200))
                @@ When(data_length >= 50,
                        "ema_50" :> _calculate_ema(close_prices, 50, reading))
                @@ When(data_length >= 100,
                        "ema_100" :> _calculate_ema(close_prices, 100, reading))
                @@ When(data_length >= 200,
                        "ema_200" :> _calculate_ema(close_prices, 200, reading))
                @@ When(data_length >= 26, "rsi_26" :> _calculate_rsi(close_prices, 26))
                @@ When(data_length >= 52, "rsi_52" :> _calculate_rsi(close_prices, 52))
                @@ When(data_length >= 50,
                        "bb_upper_50" :> bb[1] @@ "bb_middle_50" :> bb[2]
                        @@ "bb_lower_50" :> bb[3])
                @@ When(data_length >= 26,
                        "macd_line_26" :> macd[1] @@ "macd_signal_26" :> macd[2]
                        @@ "macd_histogram_26" :> macd[3])
                @@ When(data_length >= 26,
                        "stoch_k_26" :> stoch[1] @@ "stoch_d_26" :> stoch[2])
                @@ When(data_length >= 50,
                        "price_change_50d" :> _calculate_price_change(close_prices, 50))
                @@ When(data_length >= 100,
                        "price_change_100d" :> _calculate_price_change(close_prices, 100))
                @@ When(data_length >= 200,
                        "price_change_200d" :> _calculate_price_change(close_prices, 200))
                @@ When(data_length >= 252,
                        "price_change_1y" :> _calculate_price_change(close_prices, 252))
                @@ When(data_length >= 50,
                        "volatility_50d" :> _calculate_volatility(close_prices, 50, reading))
                @@ When(data_length >= 100,
                        "volatility_100d" :> _calculate_volatility(close_prices, 100, reading))
                @@ When(data_length >= 200,
                        "volatility_200d" :> _calculate_volatility(close_prices, 200, reading))
                @@ When(data_length >= 50,
                        "trend_strength" :>
                            LongTrendStrength(close_prices, TrendPeriod(data_length))
                        @@ "trend_direction" :>
                            LongTrendDirection(close_prices, TrendPeriod(data_length)))
                @@ "support_levels" :> sr[1]
                @@ "resistance_levels" :> sr[2]
                @@ When(data_length >= 50,
                        "volume_sma_50" :> _calculate_sma(volumes, 50)
                        @@ "volume_ratio_50" :> _calculate_volume_ratio(volumes, 50))
        IN  TheOne({ [key \in DOMAIN items |-> LatestLong(items[key])] :
                     items \in {indicators} })

\* an engine without the reduced set below 50 closes
calculate_long_term_indicators_NoFallback(price_data, reading) ==
    IF NoneOrEmpty(price_data) THEN EmptyMap
    ELSE TheOne({ LongIndicators(close_prices, high_prices, low_prices,
                                 volumes, len(close_prices), reading) :
                  close_prices \in {dropna(price_data, "close_price")},
                  high_prices \in {dropna(price_data, "high_price")},
                  low_prices \in {dropna(price_data, "low_price")},
                  volumes \in {dropna(price_data, "volume")} })

calculate_long_term_indicators(price_data, reading) ==
    IF NoneOrEmpty(price_data) THEN EmptyMap
    ELSE TheOne({ IF len(close_prices) < 50
                  THEN _calculate_limited_indicators(close_prices, high_prices, low_prices,
                                                     volumes, len(close_prices), reading)
                  ELSE LongIndicators(close_prices, high_prices, low_prices,
                                      volumes, len(close_prices), reading) :
                  close_prices \in {dropna(price_data, "close_price")},
                  high_prices \in {dropna(price_data, "high_price")},
                  low_prices \in {dropna(price_data, "low_price")},
                  volumes \in {dropna(price_data, "volume")} })

\* the engine, then the classifier on its map and on the last close of the frame
\* (a NaN included; 0.0 when there is no frame).  Nothing in the try block raises
\* on these inputs, so the {'error': ...} result is never produced.
analyze_long_term_stock(price_data, stock_info, reading) ==
    TheOne({ [stock_info |-> stock_info,
              current_price |-> current_price,
              indicators |-> indicators,
              signals |-> generate_long_term_signals(indicators, current_price),
              analysis_date |-> today,
              data_points |-> IF price_data = None THEN 0 ELSE Len(price_data.rows)] :
             indicators \in {calculate_long_term_indicators(price_data, reading)},
             current_price \in {IF NoneOrEmpty(price_data) THEN Num(0)
                                ELSE price_data.rows[Len(price_data.rows)].close_price} })

-----------------------------------------------------------------------------
(* analyzer.py: StockAnalyzer.calculate_technical_indicators and analyze_stock *)

\* the latest value of one entry: None only when the series is empty (lines 85-90)
LatestShort(values) ==
    IF values # None /\ len(values) > 0 THEN iloc_last(values) ELSE None

\* the indicators of 20 or more valid closes (lines 44-92)
ShortIndicators(close_prices, high_prices, low_prices, volumes, reading) ==
    LET macd == _calculate_macd(close_prices, reading)
        bb == _calculate_bollinger_bands(close_prices, 20, reading)
        stoch == _calculate_stochastic(high_prices, low_prices, close_prices, 14, 3)
        indicators ==
            "sma_5" :> _calculate_sma(close_prices, 5)
            @@ "sma_10" :> _calculate_sma(close_prices, 10)
            @@ "sma_20" :> _calculate_sma(close_prices, 20)
            @@ "sma_50" :> _calculate_sma(close_prices, 50)
            @@ "rsi_14" :> _calculate_rsi(close_prices, 14)
            @@ "macd_line" :> macd[1] @@ "macd_signal" :> macd[2]
            @@ "macd_histogram" :> macd[3]
            @@ "bb_upper" :> bb[1] @@ "bb_middle" :> bb[2] @@ "bb_lower" :> bb[3]
            @@ "stoch_k" :> stoch[1] @@ "stoch_d" :> stoch[2]
            @@ "volume_sma_20" :> _calculate_sma(volumes, 20)
            @@ "volume_ratio" :> _calculate_volume_ratio(volumes, 20)
            @@ "price_change_1d" :> _calculate_price_change(close_prices, 1)
            @@ "price_change_5d" :> _calculate_price_change(close_prices, 5)
            @@ "price_change_20d" :> _calculate_price_change(close_prices, 20)
            @@ "volatility_20d" :> _calculate_volatility(close_prices, 20, reading)
    IN  TheOne({ [key \in DOMAIN items |-> LatestShort(items[key])] :
                 items \in {indicators} })

\* an engine without the minimum of 20 closes
calculate_technical_indicators_NoMinimum(price_data, reading) ==
    IF NoneOrEmpty(price_data) THEN EmptyMap
    ELSE TheOne({ ShortIndicators(close_prices, high_prices, low_prices, volumes, reading) :
                  close_prices \in {dropna(price_data, "close_price")},
                  high_prices \in {dropna(price_data, "high_price")},
                  low_prices \in {dropna(price_data, "low_price")},
                  volumes \in {dropna(price_data, "volume")} })

calculate_technical_indicators(price_data, reading) ==
    IF NoneOrEmpty(price_data) THEN EmptyMap
    ELSE TheOne({ IF len(close_prices) < 20 THEN EmptyMap
                  ELSE ShortIndicators(close_prices, high_prices, low_prices,
                                       volumes, reading) :
                  close_prices \in {dropna(price_data, "close_price")},
                  high_prices \in {dropna(price_data, "high_price")},
                  low_prices \in {dropna(price_data, "low_price")},
                  volumes \in {dropna(price_data, "volume")} })

\* the analysis result of a stock, {} when it has no price rows
analyze_stock(stock_data, reading) ==
    LET price_history == stock_data.price_history
    IN  IF NoneOrEmpty(price_history) THEN EmptyMap
        ELSE LET \* price_history['close_price'].iloc[-1], a NaN included
                 current_price == price_history.rows[Len(price_history.rows)].close_price
                 indicators == calculate_technical_indicators(price_history, reading)
                 trading_signals == generate_trading_signals(indicators, current_price)
             IN  [stock_code |-> stock_data.stock_code,
                  current_price |-> current_price,
                  indicators |-> indicators,
                  signals |-> trading_signals,
                  analysis_date |-> today]

-----------------------------------------------------------------------------
(* analyzer.py: the indicators added per investment style *)

\* a float the code computes as a quotient num / den of hundredths (den > 0),
\* kept exact
Ratio(num, den) == [kind |-> "ratio", num |-> num, den |-> den]

\* x > t for a float x and a threshold t given in hundredths
Above(x, t) == IF x.kind = "ratio" THEN x.num * 100 > t * x.den ELSE Gt(x, Num(t))

\* min(1.0, |sma_short - sma_long| / ((sma_short + sma_long) / 2)) of the 10- and
\* 50-period means; min(1.0, nan) is 1.0
_calculate_trend_strength(prices) ==
    IF len(prices) < 20 THEN Num(0)
    ELSE LET sma_short == MeanAt(prices, 10, len(prices))
             sma_long == MeanAt(prices, 50, len(prices))
         IN  IF sma_short = NaN \/ sma_long = NaN THEN Num(Units(1))
             ELSE IF sma_short.v + sma_long.v = 0 THEN Num(0)
             ELSE LET strength == FloatDiv(Num(2 * Abs(sma_short.v - sma_long.v)),
                                           Num(sma_short.v + sma_long.v))
                  IN  IF Lt(strength, Num(Units(1))) THEN strength ELSE Num(Units(1))

\* prices.tail(20).min()
_identify_support_level(prices) ==
    IF len(prices) < 20 THEN None ELSE MinAt(prices, 20, len(prices))

\* prices.tail(20).max()
_identify_resistance_level(prices) ==
    IF len(prices) < 20 THEN None ELSE MaxAt(prices, 20, len(prices))

\* (1 + total_return) ** (1 / years) - 1 with years = len(prices) / 252: the total
\* return itself over exactly 252 closes, else a power the reading supplies
_calculate_annual_return(prices, reading) ==
    IF len(prices) < 252 THEN None
    ELSE LET start_price == prices.values[1]
             end_price == prices.values[len(prices)]
         IN  IF start_price.v = 0 THEN None
             ELSE IF len(prices) = 252
             THEN FloatDiv(Num(end_price.v - start_price.v), start_price)
             ELSE Num(reading.annual_return)

\* abs(((prices - prices.expanding().max()) / prices.expanding().max()).min()), or
\* 0.0 when that minimum is not negative.  Closes are not negative: a running
\* maximum of 0 gives 0/0 = NaN, which min() skips.
_calculate_max_drawdown(prices) ==
    IF len(prices) < 2 THEN None
    ELSE TheOne({ LET defined == {j \in 1..len(prices) : cumulative_max[j] # 0}
                      fall(j) == prices.values[j].v - cumulative_max[j]
                  IN  IF defined = {} THEN Num(0)
                      ELSE LET worst == CHOOSE j \in defined : \A k \in defined :
                                           fall(j) * cumulative_max[k]
                                               <= fall(k) * cumulative_max[j]
                           IN  IF fall(worst) < 0
                               THEN Ratio(-fall(worst), cumulative_max[worst])
                               ELSE Num(0) :
                  cumulative_max \in {[j \in 1..len(prices) |->
                                         MaxRange(prices.values, 1, j)]} })

\* price_data['close_price'] of None raises inside the try block of each
\* enhancer: the copy of the base map is returned as it is then
_enhance_for_day_trading(base_indicators, price_data, reading) ==
    IF price_data = None THEN base_indicators
    ELSE TheOne({ (IF len(close_prices) >= 5
                   THEN "volatility_5d" :> iloc_last(_calculate_volatility(close_prices, 5, reading))
                   ELSE EmptyMap)
                  @@ (IF len(close_prices) >= 7
                      THEN "rsi_7" :> iloc_last(_calculate_rsi(close_prices, 7))
                      ELSE EmptyMap)
                  @@ ("price_change_1h" :> None) @@ ("intraday_volatility" :> None)
                  @@ base_indicators :
                  close_prices \in {dropna(price_data, "close_price")} })

\* sma_100 is the rolling mean itself, not its last element
_enhance_for_swing_trading(base_indicators, price_data) ==
    IF price_data = None THEN base_indicators
    ELSE TheOne({ (IF len(close_prices) >= 50
                   THEN ("sma_100" :> _calculate_sma(close_prices, 100))
                        @@ ("trend_strength" :> _calculate_trend_strength(close_prices))
                   ELSE EmptyMap)
                  @@ ("support_level" :> _identify_support_level(close_prices))
                  @@ ("resistance_level" :> _identify_resistance_level(close_prices))
                  @@ base_indicators :
                  close_prices \in {dropna(price_data, "close_price")} })

\* sma_200 and volatility_1y are the rolling series themselves
_enhance_for_long_term(base_indicators, price_data, reading) ==
    IF price_data = None THEN base_indicators
    ELSE TheOne({ (IF len(close_prices) >= 200
                   THEN ("sma_200" :> _calculate_sma(close_prices, 200))
                        @@ ("volatility_1y" :>
                              _calculate_volatility(close_prices, Min2(252, len(close_prices)),
                                                    reading))
                   ELSE EmptyMap)
                  @@ (IF len(close_prices) >= 252
                      THEN ("annual_return" :> _calculate_annual_return(close_prices, reading))
                           @@ ("max_drawdown_1y" :> _calculate_max_drawdown(close_prices))
                      ELSE EmptyMap)
                  @@ base_indicators :
                  close_prices \in {dropna(price_data, "close_price")} })

calculate_technical_indicators_by_style(price_data, investment_style, reading) ==
    TheOne({ CASE investment_style = "day_trading" ->
                    _enhance_for_day_trading(base_indicators, price_data, reading)
               [] investment_style = "swing_trading" ->
                    _enhance_for_swing_trading(base_indicators, price_data)
               [] investment_style = "long_term" ->
                    _enhance_for_long_term(base_indicators, price_data, reading)
               [] OTHER -> base_indicators :
             base_indicators \in {calculate_technical_indicators(price_data, reading)} })

-----------------------------------------------------------------------------
(* analyzer.py: the signals adjusted per investment style, and the AI analysis *)

_adjust_signals_for_day_trading(base_signals, indicators) ==
    LET rsi == Get(indicators, "rsi_14")
        volatility == Get(indicators, "volatility_5d")
    IN  (IF rsi = None THEN EmptyMap
         ELSE IF Gt(rsi, Num(Units(75))) THEN "rsi_signal" :> <<"strong", "sell">>
         ELSE IF Lt(rsi, Num(Units(25))) THEN "rsi_signal" :> <<"strong", "buy">>
         ELSE EmptyMap)
        @@ (IF volatility # None /\ Above(volatility, Hundredths(30))
            THEN "risk_note" :> <<"high volatility">> ELSE EmptyMap)
        @@ base_signals

\* key_levels is the text made of the two levels
_adjust_signals_for_swing_trading(base_signals, indicators) ==
    LET trend_strength == Get(indicators, "trend_strength")
        support == Get(indicators, "support_level")
        resistance == Get(indicators, "resistance_level")
        overall_signal == Get(base_signals, "overall_signal")
    IN  (IF trend_strength # None /\ Above(trend_strength, Hundredths(70))
         THEN IF overall_signal = <<"buy", "recommended">>
              THEN "overall_signal" :> <<"strong", "buy", "recommended", "(bullish trend)">>
              ELSE IF overall_signal = <<"sell", "recommended">>
              THEN "overall_signal" :> <<"strong", "sell", "recommended", "(bearish trend)">>
              ELSE EmptyMap
         ELSE EmptyMap)
        @@ (IF Truthy(support) /\ Truthy(resistance)
            THEN "key_levels" :> [kind |-> "levels", support |-> support,
                                  resistance |-> resistance]
            ELSE EmptyMap)
        @@ base_signals

\* a banding whose thresholds are inclusive
DrawdownRiskInclusive(indicators) ==
    LET max_drawdown == Get(indicators, "max_drawdown_1y")
    IN  IF max_drawdown = None THEN EmptyMap
        ELSE IF Above(max_drawdown, Hundredths(30)) \/ max_drawdown = Num(Hundredths(30))
        THEN "risk_assessment" :> <<"high risk">>
        ELSE IF Above(max_drawdown, Hundredths(15)) \/ max_drawdown = Num(Hundredths(15))
        THEN "risk_assessment" :> <<"medium risk">>
        ELSE "risk_assessment" :> <<"low risk">>

\* the bucket of max_drawdown_1y; no key when the indicator is None or absent
DrawdownRisk(indicators) ==
    LET max_drawdown == Get(indicators, "max_drawdown_1y")
    IN  IF max_drawdown = None THEN EmptyMap
        ELSE IF Above(max_drawdown, Hundredths(30)) THEN "risk_assessment" :> <<"high risk">>
        ELSE IF Above(max_drawdown, Hundredths(15)) THEN "risk_assessment" :> <<"medium risk">>
        ELSE "risk_assessment" :> <<"low risk">>

\* sma_200 is compared as a number here: the map of the style engine holds no
\* current_price, so the comparison is made on maps of other callers only
_adjust_signals_for_long_term(base_signals, indicators) ==
    LET sma_200 == Get(indicators, "sma_200")
        current_price == Get(indicators, "current_price")
    IN  (IF sma_200 # None /\ current_price # None
         THEN IF Gt(current_price, sma_200)
              THEN "long_term_trend" :> <<"bullish", "(above the 200-day average)">>
              ELSE "long_term_trend" :> <<"bearish", "(not above the 200-day average)">>
         ELSE EmptyMap)
        @@ DrawdownRisk(indicators)
        @@ base_signals

generate_trading_signals_by_style(indicators, current_price, investment_style) ==
    TheOne({ CASE investment_style = "day_trading" ->
                    _adjust_signals_for_day_trading(base_signals, indicators)
               [] investment_style = "swing_trading" ->
                    _adjust_signals_for_swing_trading(base_signals, indicators)
               [] investment_style = "long_term" ->
                    _adjust_signals_for_long_term(base_signals, indicators)
               [] OTHER -> base_signals :
             base_signals \in {generate_trading_signals(indicators, current_price)} })

\* 0.5 + 0.2 * valid / total + 0.3 * |buy_count - sell_count| / (buy_count +
\* sell_count), clamped to [0, 1], as the exact fraction num/den
_calculate_ai_confidence(indicators, trading_signals) ==
    LET total_indicators == Cardinality(DOMAIN indicators)
        valid_indicators == Cardinality({k \in DOMAIN indicators : indicators[k] # None})
        buy_count == GetOr(trading_signals, "buy_count", 0)
        sell_count == GetOr(trading_signals, "sell_count", 0)
        total_signals == buy_count + sell_count
        t == IF total_indicators > 0 THEN total_indicators ELSE 1
        g == IF total_signals > 0 THEN total_signals ELSE 1
        den == 10 * t * g
        score == 5 * t * g
                 + (IF total_indicators > 0 THEN 2 * valid_indicators * g ELSE 0)
                 + (IF total_signals > 0 THEN 3 * Abs(buy_count - sell_count) * t ELSE 0)
    IN  [num |-> IF score > den THEN den ELSE IF score < 0 THEN 0 ELSE score,
         den |-> den]

_generate_ai_recommendation(indicators, trading_signals, investment_style) ==
    LET overall_signal == GetOr(trading_signals, "overall_signal", <<"neutral">>)
        confidence == _calculate_ai_confidence(indicators, trading_signals)
    IN  IF 10 * confidence.num < 3 * confidence.den
        THEN <<"confidence low">> \o overall_signal \o <<"(insufficient data)">>
        ELSE IF 10 * confidence.num < 7 * confidence.den
        THEN <<"confidence medium">> \o overall_signal
        ELSE <<"confidence high">> \o overall_signal

_generate_ai_reasoning(indicators, trading_signals, investment_style) ==
    LET rsi == Get(indicators, "rsi_14")
        macd_histogram == Get(indicators, "macd_histogram")
        reasoning_parts ==
            (IF rsi = None THEN <<>>
             ELSE IF Gt(rsi, Num(Units(70))) THEN <<"RSI in the sell zone">>
             ELSE IF Lt(rsi, Num(Units(30))) THEN <<"RSI in the buy zone">>
             ELSE <<>>)
            \o (IF macd_histogram = None THEN <<>>
                ELSE IF Gt(macd_histogram, Num(0)) THEN <<"MACD bullish">>
                ELSE <<"MACD bearish">>)
            \o (CASE investment_style = "day_trading" -> <<"short-term trading">>
                  [] investment_style = "swing_trading" -> <<"medium-term trend">>
                  [] investment_style = "long_term" -> <<"long-term view">>
                  [] OTHER -> <<>>)
    IN  IF reasoning_parts = <<>> THEN <<"no clear signal">> ELSE reasoning_parts

\* the bucket of volatility_20d: a NaN compares False twice and is low risk
_assess_ai_risk(indicators, investment_style) ==
    LET volatility == Get(indicators, "volatility_20d")
    IN  IF volatility = None THEN <<"risk not assessable">>
        ELSE IF Above(volatility, Hundredths(40)) THEN <<"high risk">>
        ELSE IF Above(volatility, Hundredths(20)) THEN <<"medium risk">>
        ELSE <<"low risk">>

_get_time_horizon(investment_style) ==
    CASE investment_style = "day_trading" -> <<"short", "(within days)">>
      [] investment_style = "swing_trading" -> <<"medium", "(weeks to months)">>
      [] investment_style = "long_term" -> <<"long", "(months to years)">>
      [] OTHER -> <<"unknown">>

\* nothing in the try block raises on the maps of the engine and the classifier
generate_ai_analysis(indicators, trading_signals, investment_style) ==
    [confidence_score |-> _calculate_ai_confidence(indicators, trading_signals),
     recommendation |-> _generate_ai_recommendation(indicators, trading_signals,
                                                    investment_style),
     reasoning |-> _generate_ai_reasoning(indicators, trading_signals, investment_style),
     risk_assessment |-> _assess_ai_risk(indicators, investment_style),
     time_horizon |-> _get_time_horizon(investment_style)]

\* the two writes of one analysis, each with its own database fault: the tables
\* afterwards (both save methods catch their errors and return False)
SaveAnalysis(tables, analysis_result, fault_ti, fault_id) ==
    LET key == Key(analysis_result.stock_code, today, analysis_result.investment_style)
        trading_signals == analysis_result.signals
        ai_analysis == analysis_result.ai_analysis
        decision_data ==
            ("decision_type" :> Str("analyze")) @@ ("target_price" :> None)
            @@ ("stop_loss" :> None)
            @@ ("confidence_score" :> ai_analysis.confidence_score)
            @@ [c \in {"rsi_signal", "macd_signal", "bb_signal", "stoch_signal",
                       "overall_signal", "buy_count", "sell_count"} |->
                  Get(trading_signals, c)]
            @@ ("ai_reasoning" :> ai_analysis.reasoning)
            @@ ("risk_assessment" :> ai_analysis.risk_assessment)
    IN  [technical_indicators |->
             SaveRow(tables.technical_indicators, key,
                     IndicatorRow(key, analysis_result.indicators), fault_ti).table,
         investment_decisions |->
             SaveRow(tables.investment_decisions, key,
                     DecisionRow(key, decision_data), fault_id).table]

_save_analysis_to_database(analysis_result, fault_ti, fault_id) ==
    SaveAnalysis([technical_indicators |-> technical_indicators,
                  investment_decisions |-> investment_decisions],
                 analysis_result, fault_ti, fault_id)

\* the analysis result, before it is saved; {} when the stock has no price rows
analyze_stock_by_style(stock_data, investment_style, reading) ==
    LET price_history == stock_data.price_history
    IN  IF NoneOrEmpty(price_history) THEN EmptyMap
        ELSE TheOne(
                 { TheOne({ [stock_code |-> stock_data.stock_code,
                             current_price |-> current_price,
                             indicators |-> indicators,
                             signals |-> trading_signals,
                             ai_analysis |-> generate_ai_analysis(indicators, trading_signals,
                                                                  investment_style),
                             investment_style |-> investment_style,
                             analysis_date |-> today] :
                            trading_signals \in
                              {generate_trading_signals_by_style(indicators, current_price,
                                                                 investment_style)} }) :
                   current_price \in
                     {price_history.rows[Len(price_history.rows)].close_price},
                   indicators \in
                     {calculate_technical_indicators_by_style(price_history,
                                                              investment_style, reading)} })

-----------------------------------------------------------------------------
(* The risk banding called on indicator maps of any content *)

\* max_drawdown_1y is a quotient or 0.0 when the engine sets it; volatility_20d is
\* NaN on exactly 20 closes
DrawdownInputs == {Absent, None, Num(0), Num(Hundredths(15)), Num(Hundredths(16)),
                   Num(Hundredths(30)), Num(Hundredths(31)), Ratio(5040, 19980)}
VolatilityInputs == {Absent, None, NaN, Num(0), Num(Hundredths(20)), Num(Hundredths(21)),
                     Num(Hundredths(40)), Num(Hundredths(41))}
\* (sma_200, current_price)
TrendInputs == {<<Absent, Absent>>, <<Num(Units(1000)), Num(Units(900))>>,
                <<Num(Units(1000)), Num(Units(1100))>>}

RiskInputs ==
    { [classifier |-> "risk",
       indicators |-> Entry("max_drawdown_1y", max_drawdown)
                        @@ Entry("volatility_20d", volatility)
                        @@ Entry("sma_200", trend[1]) @@ Entry("current_price", trend[2]),
       current_price |-> trend[2]] :
      max_drawdown \in DrawdownInputs, volatility \in VolatilityInputs,
      trend \in TrendInputs }

\* the two risk bandings of the long_term style on one indicator map
AssessRisk ==
    /\ sigPc = "called"
    /\ clsInput.classifier = "risk"
    /\ signals' = [adjusted |-> _adjust_signals_for_long_term(EmptyMap, clsInput.indicators),
                   risk_assessment |-> _assess_ai_risk(clsInput.indicators, "long_term")]
    /\ sigPc' = "returned"
    /\ UNCHANGED clsInput

SignalsInit ==
    /\ clsInput \in ShortInputs \cup LongInputs \cup RiskInputs
    /\ signals = EmptyMap
    /\ sigPc = "called"

GenerateTradingSignals ==
    /\ sigPc = "called"
    /\ clsInput.classifier = "short"
    /\ signals' = generate_trading_signals(clsInput.indicators, clsInput.current_price)
    /\ sigPc' = "returned"
    /\ UNCHANGED clsInput

GenerateLongTermSignals ==
    /\ sigPc = "called"
    /\ clsInput.classifier = "long"
    /\ signals' = generate_long_term_signals(clsInput.indicators, clsInput.current_price)
    /\ sigPc' = "returned"
    /\ UNCHANGED clsInput

SignalsNext ==
    \/ GenerateTradingSignals /\ UNCHANGED <<storeVars, engineVars>>
    \/ GenerateLongTermSignals /\ UNCHANGED <<storeVars, engineVars>>
    \/ AssessRisk /\ UNCHANGED <<storeVars, engineVars>>

InitSignals == StoreInit /\ EngineIdle /\ SignalsInit

SpecSignals == InitSignals /\ [][SignalsNext]_vars

-----------------------------------------------------------------------------
(* data_fetcher.py: get_all_stock_data; generate_stock_reports.py: the reports *)

TrackedStock == "7203"
OtherStock == "6758"            \* held in the portfolio, without price rows

\* SELECT DISTINCT stock_code FROM portfolio_holdings UNION ... trading_plans
get_target_stock_codes == <<TrackedStock, OtherStock>>

\* the row of the stocks table as a dict, None when the stock has no row
get_stock_basic_info(stock_code) ==
    IF stock_code = TrackedStock /\ feed.listed
    THEN [stock_code |-> stock_code, stock_name |-> "Toyota", market |-> "Prime"]
    ELSE None

get_all_stock_data(stock_code) ==
    [stock_code |-> stock_code,
     basic_info |-> get_stock_basic_info(stock_code),
     price_history |-> get_stock_price_history(stock_code, DefaultDays, "none"),
     portfolio_info |-> <<>>,
     trading_plans |-> <<>>]

\* os.path.join(self.output_dir, f"{stock_code}.html")
ReportFile(stock_code) == <<"reports", stock_code, ".html">>
SummaryFile == <<"reports", "generation_summary.json">>

\* open() or write() of the report of a stock raises: "write" is a directory
\* nothing can be written to, "write_report" a failure on the tracked stock's
\* file alone
WriteFails(fault, stock_code) ==
    fault = "write" \/ (fault = "write_report" /\ stock_code = TrackedStock)

\* basic_info.get(...) of _prepare_report_data raises AttributeError on None
_prepare_report_data_raises(stock_data) == stock_data.basic_info = None

\* generate_single_report(stock_code) with investment_style = None, as
\* generate_all_reports calls it: the value returned and the file written.  The
\* charts never raise and the template rendering returns an error page instead
\* of raising; a failing open() or write() is the fault.
generate_single_report(stock_code, reading, fault) ==
    TheOne({ IF NoneOrEmpty(stock_data.price_history)
             THEN [ret |-> FALSE, files |-> {}, analysis_result |-> None]
             ELSE TheOne({ IF analysis_result = EmptyMap
                                \/ _prepare_report_data_raises(stock_data)
                                \/ WriteFails(fault, stock_code)
                           THEN [ret |-> FALSE, files |-> {},
                                 analysis_result |-> analysis_result]
                           ELSE [ret |-> TRUE, files |-> {ReportFile(stock_code)},
                                 analysis_result |-> analysis_result] :
                           analysis_result \in {analyze_stock(stock_data, reading)} }) :
             stock_data \in {get_all_stock_data(stock_code)} })

\* a run that gives up at the first stock whose report fails
SummaryGivingUp(target_stocks, reports, fault) ==
    IF \E i \in 1..Len(target_stocks) : ~reports[i].ret
    THEN [ret |-> [success |-> FALSE],
          files |-> UNION {reports[i].files : i \in 1..Len(target_stocks)},
          attempts |-> [i \in 1..Len(target_stocks) |->
                           [stock_code |-> target_stocks[i], ret |-> reports[i].ret,
                            analysis_result |-> reports[i].analysis_result]]]
    ELSE [ret |-> [success |-> TRUE,
                   total_stocks |-> Len(target_stocks),
                   success_count |-> Len(target_stocks),
                   failed_count |-> 0,
                   failed_stocks |-> <<>>],
          files |-> UNION {reports[i].files : i \in 1..Len(target_stocks)}
                       \cup {SummaryFile},
          attempts |-> [i \in 1..Len(target_stocks) |->
                           [stock_code |-> target_stocks[i], ret |-> reports[i].ret,
                            analysis_result |-> reports[i].analysis_result]]]

\* the summary of generate_all_reports (lines 291-326): reports[i] is what
\* generate_single_report gave for target_stocks[i], attempts the calls made
\* in their order
Summary(target_stocks, reports, fault) ==
    LET failed_stocks == SelectSeq(target_stocks,
                                   LAMBDA c : \E i \in 1..Len(target_stocks) :
                                                 target_stocks[i] = c /\ ~reports[i].ret)
        written == UNION {reports[i].files : i \in 1..Len(target_stocks)}
        attempts == [i \in 1..Len(target_stocks) |->
                        [stock_code |-> target_stocks[i], ret |-> reports[i].ret,
                            analysis_result |-> reports[i].analysis_result]]
    IN  IF fault = "write"
        THEN [ret |-> [success |-> FALSE], files |-> written, attempts |-> attempts]
        ELSE [ret |-> [success |-> TRUE,
                       total_stocks |-> Len(target_stocks),
                       success_count |-> Len(target_stocks) - Len(failed_stocks),
                       failed_count |-> Len(failed_stocks),
                       failed_stocks |-> failed_stocks],
              files |-> written \cup {SummaryFile},
              attempts |-> attempts]

\* generate_all_reports: the summary returned and the files written
generate_all_reports(reading, fault) ==
    IF get_target_stock_codes = <<>>
    THEN [ret |-> [success |-> FALSE], files |-> {}, attempts |-> <<>>]
    ELSE TheOne({ Summary(get_target_stock_codes, reports, fault) :
                  reports \in {[i \in 1..Len(get_target_stock_codes) |->
                                  generate_single_report(get_target_stock_codes[i],
                                                         reading, fault)]} })

\* LongTermStockReportGenerator: its files are kept in reports/long_term
LongTermReportFile(stock_code) == <<"reports", "long_term", stock_code, ".html">>
LongTermSummaryFile == <<"reports", "long_term", "generation_summary.json">>

\* a long-term report needs 200 rows of history
MinLongTermRows == 200

\* LongTermStockReportGenerator.generate_single_report: False without history,
\* with fewer than 200 rows, when stock_data['basic_info'] is None (.get of
\* None raises, the handler's except returns False) and when the file cannot
\* be written; analyze_long_term_stock never gives an empty result
LongTerm_generate_single_report(stock_code, reading, fault) ==
    TheOne({ IF NoneOrEmpty(stock_data.price_history)
             THEN [ret |-> FALSE, files |-> {}, analysis_result |-> None]
             ELSE IF Len(stock_data.price_history.rows) < MinLongTermRows
                     \/ stock_data.basic_info = None
             THEN [ret |-> FALSE, files |-> {}, analysis_result |-> None]
             ELSE TheOne({ IF analysis_result = EmptyMap \/ WriteFails(fault, stock_code)
                           THEN [ret |-> FALSE, files |-> {},
                                 analysis_result |-> analysis_result]
                           ELSE [ret |-> TRUE, files |-> {LongTermReportFile(stock_code)},
                                 analysis_result |-> analysis_result] :
                           analysis_result \in
                               {analyze_long_term_stock(
                                    stock_data.price_history,
                                    [stock_code |-> stock_code,
                                     stock_name |-> stock_data.basic_info.stock_name,
                                     industry |-> "unknown",
                                     market |-> stock_data.basic_info.market],
                                    reading)} }) :
             stock_data \in {get_all_stock_data(stock_code)} })

\* LongTermStockReportGenerator.generate_all_reports: the same loop and the
\* same summary, written to reports/long_term
LongTerm_generate_all_reports(reading, fault) ==
    IF get_target_stock_codes = <<>>
    THEN [ret |-> [success |-> FALSE], files |-> {}, attempts |-> <<>>]
    ELSE TheOne({ [out EXCEPT !.files = (@ \ {SummaryFile})
                                         \cup (IF SummaryFile \in @
                                               THEN {LongTermSummaryFile} ELSE {})] :
                  out \in {Summary(get_target_stock_codes,
                                   [i \in 1..Len(get_target_stock_codes) |->
                                      LongTerm_generate_single_report(
                                          get_target_stock_codes[i], reading, fault)],
                                   fault)} })

-----------------------------------------------------------------------------
(* The price table grows by one row per trading day *)

MaxRows == 253          \* rows ever inserted for the long-horizon engine

Shapes == {"rising", "falling", "flat", "zigzag", "gaps"}

\* the price row of day i in a market of the given shape; a NULL cell is None.
\* "gaps" is a rising market whose close is missing every 4th day, whose low is
\* missing every 5th day and whose volume is never reported.  "close_above_high"
\* is a rising market whose bars record a high and a low below the close (the
\* table has no constraint between the three columns).  "surging" is a market
\* that trades at 10 for 30 days and at 100 from then on.
Bar(shape, i) ==
    LET close == CASE shape \in {"rising", "gaps", "close_above_high"} ->
                        Units(100) + 20 * i
                   [] shape = "surging" -> IF i <= 30 THEN Units(10) ELSE Units(100)
                   [] shape = "falling" -> Units(200) - 20 * i
                   [] shape = "flat" -> Units(100)
                   [] shape = "zigzag" -> Units(100) + (IF i % 2 = 0 THEN 150 ELSE 0)
                                              + (IF i % 7 = 0 THEN 60 ELSE 0)
        spread == IF shape = "flat" THEN 0 ELSE 40
    IN  [stock_code |-> TrackedStock,
         price_date |-> i,
         close_price |-> IF shape = "gaps" /\ i % 4 = 0 THEN None ELSE Num(close),
         high_price |-> IF shape = "close_above_high" THEN Num(close - 10)
                        ELSE Num(close + spread),
         low_price |-> IF shape = "gaps" /\ i % 5 = 0 THEN None
                       ELSE IF shape = "close_above_high" THEN Num(close - 50)
                       ELSE Num(close - spread),
         volume |-> IF shape = "gaps" THEN None ELSE Num(Units(1000 + 10 * (i % 3)))]

\* the day's row is written to stock_prices_history; the call observed on the
\* previous day's table is over
InsertPrice(bound) ==
    /\ enginePc = "insert"
    /\ Len(stock_prices_history) < bound
    /\ stock_prices_history' =
           Append(stock_prices_history, Bar(feed.shape, Len(stock_prices_history) + 1))
    /\ enginePc' = "run"
    /\ lastCall' = [op |-> "none"]
    /\ UNCHANGED <<feed, report_files, seen>>

\* number of valid closes in a frame
ValidCloses(price_data) ==
    IF NoneOrEmpty(price_data) THEN 0 ELSE len(dropna(price_data, "close_price"))

\* the long-horizon engine is run on the history fetched for the stock
CalculateLongTermIndicators(reading) ==
    /\ enginePc = "run"
    /\ \E price_data \in {get_stock_price_history(TrackedStock, DefaultDays, "none")} :
       \E indicators \in {calculate_long_term_indicators(price_data, reading)} :
           /\ lastCall' = [op |-> "calculate_long_term_indicators",
                           frame |-> price_data # None,
                           valid_closes |-> ValidCloses(price_data),
                           raised |-> FALSE,
                           ret |-> indicators]
           /\ seen' = IF price_data = None THEN seen
                      ELSE (ValidCloses(price_data) :> DOMAIN indicators) @@ seen
    /\ enginePc' = "insert"
    /\ UNCHANGED <<stock_prices_history, feed, report_files>>

\* the long-horizon analysis is run on the history fetched for the stock
AnalyzeLongTermStock(reading) ==
    /\ enginePc = "run"
    /\ \E price_data \in {get_stock_price_history(TrackedStock, DefaultDays, "none")} :
       \E result \in {analyze_long_term_stock(price_data, get_stock_basic_info(TrackedStock),
                                              reading)} :
           /\ lastCall' = [op |-> "analyze_long_term_stock",
                           frame |-> price_data # None,
                           valid_closes |-> ValidCloses(price_data),
                           raised |-> FALSE,
                           ret |-> result]
           /\ seen' = IF price_data = None THEN seen
                      ELSE (ValidCloses(price_data) :> DOMAIN result.indicators) @@ seen
    /\ enginePc' = "insert"
    /\ UNCHANGED <<stock_prices_history, feed, report_files>>

\* the markets the long-horizon engine is run on
LongTermShapes == Shapes \cup {"surging"}

LongTermInit ==
    /\ stock_prices_history = <<>>
    /\ feed \in [stock_code : {TrackedStock}, shape : LongTermShapes, listed : {TRUE}]
    /\ enginePc = "run"
    /\ lastCall = [op |-> "none"]
    /\ report_files = {}
    /\ seen = EmptyMap

LongTermNext ==
    \/ InsertPrice(MaxRows) /\ UNCHANGED <<storeVars, signalVars>>
    \/ (\E reading \in Readings : CalculateLongTermIndicators(reading))
         /\ UNCHANGED <<storeVars, signalVars>>
    \/ (\E reading \in Readings : AnalyzeLongTermStock(reading))
         /\ UNCHANGED <<storeVars, signalVars>>

InitLongTerm == StoreInit /\ SignalsIdle /\ LongTermInit

SpecLongTerm == InitLongTerm /\ [][LongTermNext]_vars

-----------------------------------------------------------------------------
(* The short-horizon engine and the report generator over the growing table *)

MaxShortRows == 28      \* rows ever inserted for the short-horizon engine

ReportFaults == {"none", "write", "write_report"}

\* the short-horizon engine is run on the history fetched for the stock
CalculateTechnicalIndicators(reading) ==
    /\ enginePc = "run"
    /\ \E price_data \in {get_stock_price_history(TrackedStock, DefaultDays, "none")} :
           lastCall' = [op |-> "calculate_technical_indicators",
                        frame |-> price_data # None,
                        valid_closes |-> ValidCloses(price_data),
                        raised |-> FALSE,
                        ret |-> calculate_technical_indicators(price_data, reading)]
    /\ enginePc' = "insert"
    /\ UNCHANGED <<stock_prices_history, feed, report_files, seen>>

\* analyze_stock on all the data of the stock
AnalyzeStock(reading) ==
    /\ enginePc = "run"
    /\ \E stock_data \in {get_all_stock_data(TrackedStock)} :
           lastCall' = [op |-> "analyze_stock",
                        frame |-> stock_data.price_history # None,
                        valid_closes |-> ValidCloses(stock_data.price_history),
                        raised |-> FALSE,
                        ret |-> analyze_stock(stock_data, reading)]
    /\ enginePc' = "insert"
    /\ UNCHANGED <<stock_prices_history, feed, report_files, seen>>

\* the report of one stock is generated
GenerateSingleReport(stock_code, reading, fault) ==
    /\ enginePc = "run"
    /\ \E price_history \in {get_stock_price_history(stock_code, DefaultDays, "none")},
          out \in {generate_single_report(stock_code, reading, fault)} :
           /\ lastCall' = [op |-> "generate_single_report",
                           stock_code |-> stock_code,
                           frame |-> price_history # None,
                           valid_closes |-> ValidCloses(price_history),
                           raised |-> FALSE,
                           analysis_result |-> out.analysis_result,
                           wrote |-> out.files # {},
                           ret |-> out.ret]
           /\ report_files' = report_files \cup out.files
    /\ enginePc' = "insert"
    /\ UNCHANGED <<stock_prices_history, feed, seen>>

\* the reports of all the target stocks are generated
GenerateAllReports(reading, fault) ==
    /\ enginePc = "run"
    /\ \E price_history \in {get_stock_price_history(TrackedStock, DefaultDays, "none")},
          out \in {generate_all_reports(reading, fault)} :
           /\ lastCall' = [op |-> "generate_all_reports",
                           frame |-> price_history # None,
                           valid_closes |-> ValidCloses(price_history),
                           raised |-> FALSE,
                           wrote |-> ReportFile(TrackedStock) \in out.files,
                           ret |-> out.ret]
           /\ report_files' = report_files \cup out.files
    /\ enginePc' = "insert"
    /\ UNCHANGED <<stock_prices_history, feed, seen>>

\* the markets the short-horizon engine is run on
ReportShapes == Shapes \cup {"close_above_high"}

ReportInit ==
    /\ stock_prices_history = <<>>
    /\ feed \in [stock_code : {TrackedStock}, shape : ReportShapes, listed : BOOLEAN]
    /\ enginePc = "run"
    /\ lastCall = [op |-> "none"]
    /\ report_files = {}
    /\ seen = EmptyMap

ReportNext ==
    \/ InsertPrice(MaxShortRows) /\ UNCHANGED <<storeVars, signalVars>>
    \/ (\E reading \in Readings : CalculateTechnicalIndicators(reading))
         /\ UNCHANGED <<storeVars, signalVars>>
    \/ (\E reading \in Readings : AnalyzeStock(reading))
         /\ UNCHANGED <<storeVars, signalVars>>
    \/ (\E stock_code \in {TrackedStock, OtherStock}, reading \in Readings,
            fault \in ReportFaults : GenerateSingleReport(stock_code, reading, fault))
         /\ UNCHANGED <<storeVars, signalVars>>
    \/ (\E reading \in Readings, fault \in ReportFaults :
            GenerateAllReports(reading, fault))
         /\ UNCHANGED <<storeVars, signalVars>>

InitReport == StoreInit /\ SignalsIdle /\ ReportInit

SpecReport == InitReport /\ [][ReportNext]_vars

-----------------------------------------------------------------------------
(* The analysis by investment style, run once on the table as it stands *)

\* the styles a caller passes: the three the analyzer specializes, and one more
Styles == {"day_trading", "swing_trading", "long_term", "short_term"}

\* where the database may fail during one of the two writes
SaveFaults == {"none", "commit"}

\* a day on which the analysis is not run
SkipDay ==
    /\ enginePc = "run"
    /\ enginePc' = "insert"
    /\ UNCHANGED <<stock_prices_history, feed, lastCall, report_files, seen>>

\* analyze_stock_by_style on all the data of the stock: the result is put
\* together and, unless the call returned {} before, saved; the run ends with it
AnalyzeStockByStyle(investment_style, reading) ==
    /\ enginePc = "run"
    /\ \E stock_data \in {get_all_stock_data(TrackedStock)} :
       \E analysis_result \in {analyze_stock_by_style(stock_data, investment_style, reading)} :
       \E fault_ti \in SaveFaults, fault_id \in SaveFaults :
       \E out \in {[ret |-> analysis_result,
                    tables |-> IF analysis_result = EmptyMap
                               THEN [technical_indicators |-> technical_indicators,
                                     investment_decisions |-> investment_decisions]
                               ELSE _save_analysis_to_database(analysis_result,
                                                               fault_ti, fault_id)]} :
           /\ lastCall' = [op |-> "analyze_stock_by_style",
                           investment_style |-> investment_style,
                           frame |-> stock_data.price_history # None,
                           valid_closes |-> ValidCloses(stock_data.price_history),
                           faults |-> <<fault_ti, fault_id>>,
                           before_ti |-> technical_indicators,
                           before_id |-> investment_decisions,
                           ret |-> out.ret]
           /\ technical_indicators' = out.tables.technical_indicators
           /\ investment_decisions' = out.tables.investment_decisions
    /\ enginePc' = "done"
    /\ UNCHANGED <<stock_prices_history, feed, report_files, seen, today, lastSave, nCalls,
                   workers>>

\* the two report generators
Generators == {"StockReportGenerator", "LongTermStockReportGenerator"}

\* main() of a report script: one generate_all_reports over the target stocks,
\* and the run ends with it
RunGenerateAllReports(generator, reading, fault) ==
    /\ enginePc = "run"
    /\ \E out \in {IF generator = "StockReportGenerator"
                    THEN generate_all_reports(reading, fault)
                    ELSE LongTerm_generate_all_reports(reading, fault)} :
           /\ lastCall' = [op |-> "generate_all_reports",
                           generator |-> generator,
                           fault |-> fault,
                           target_stocks |-> get_target_stock_codes,
                           attempts |-> out.attempts,
                           raised |-> FALSE,
                           ret |-> out.ret]
           /\ report_files' = report_files \cup out.files
    /\ enginePc' = "done"
    /\ UNCHANGED <<stock_prices_history, feed, seen>>

\* BatchDataSaver.save_all_analysis_data: every target stock is analysed in
\* the styles short_term and long_term, each analysis saving its two rows (the
\* saver's own two save calls then find them).  Fault "raised": the saver
\* cannot be built, nothing is written and the call raises; "summary": the
\* rows are written, batch_save_summary.json is not, the call returns failure.
SaveStyle(tables, stock_code, style, reading) ==
    TheOne({ IF analysis_result = EmptyMap THEN tables
             ELSE SaveAnalysis(tables, analysis_result, "none", "none") :
             analysis_result \in
               {analyze_stock_by_style(get_all_stock_data(stock_code), style, reading)} })

RECURSIVE SaveStocks(_, _, _)
SaveStocks(tables, stock_codes, reading) ==
    IF stock_codes = <<>> THEN tables
    ELSE SaveStocks(SaveStyle(SaveStyle(tables, Head(stock_codes), "short_term", reading),
                              Head(stock_codes), "long_term", reading),
                    Tail(stock_codes), reading)

save_all_analysis_data(reading, fault) ==
    IF fault = "raised"
    THEN [raised |-> TRUE,
          tables |-> [technical_indicators |-> technical_indicators,
                      investment_decisions |-> investment_decisions]]
    ELSE [raised |-> FALSE,
          ret |-> [success |-> fault # "summary" /\ get_target_stock_codes # <<>>],
          tables |-> SaveStocks([technical_indicators |-> technical_indicators,
                                 investment_decisions |-> investment_decisions],
                                get_target_stock_codes, reading)]

\* where one run of generate_all may fail: in the two report runs, in the index
\* page, in the database save and in writing all_reports_summary.json
\* the place of a fault among the faults of a report run
FaultNo(fault) == CASE fault = "none" -> 1 [] fault = "write" -> 2 [] fault = "write_report" -> 3

AllFaults ==
    [short_term : ReportFaults, long_term : ReportFaults, index : {"none", "write"},
     database : {"none", "raised", "summary"}, summary : {"none", "write"}]

AllSteps == <<"short_term", "long_term", "index", "database">>

\* a generate_all that gives up when the long-term reports fail
generate_all_LongTermRequired(save_to_database, short_term, long_term, database, faults) ==
    IF ~short_term.ret.success
    THEN [ret |-> [success |-> FALSE], steps |-> SubSeq(AllSteps, 1, 1), saved |-> FALSE]
    ELSE [ret |-> [success |-> long_term.ret.success /\ faults.index = "none"
                                  /\ faults.summary = "none"],
          steps |-> IF ~long_term.ret.success THEN SubSeq(AllSteps, 1, 2)
                    ELSE IF faults.index # "none" \/ ~save_to_database
                    THEN SubSeq(AllSteps, 1, 3) ELSE AllSteps,
          saved |-> long_term.ret.success /\ faults.index = "none" /\ save_to_database]

\* AllReportsGenerator.generate_all, given what the two report runs and the
\* database save give: the steps run in their order, whether the database save
\* was run, and the summary returned
generate_all(save_to_database, short_term, long_term, database, faults) ==
    IF ~short_term.ret.success
    THEN [ret |-> [success |-> FALSE], steps |-> SubSeq(AllSteps, 1, 1), saved |-> FALSE]
    ELSE IF faults.index # "none"
    THEN [ret |-> [success |-> FALSE], steps |-> SubSeq(AllSteps, 1, 3), saved |-> FALSE]
    ELSE LET database_result ==
                 IF ~save_to_database THEN None
                 ELSE IF database.raised THEN [success |-> FALSE]
                 ELSE database.ret
         IN  [ret |-> IF faults.summary = "write" THEN [success |-> FALSE]
                      ELSE [success |-> TRUE,
                            short_term |-> short_term.ret,
                            long_term |-> long_term.ret,
                            index |-> [success |-> TRUE],
                            database |-> database_result],
              steps |-> IF save_to_database THEN AllSteps ELSE SubSeq(AllSteps, 1, 3),
              saved |-> save_to_database]

\* one call of generate_all (main() of generate_all_reports.py makes one); the run
\* ends with it
GenerateAll(save_to_database, reading) ==
    /\ enginePc = "run"
    /\ \E short_terms \in {<<generate_all_reports(reading, "none"),
                             generate_all_reports(reading, "write"),
                             generate_all_reports(reading, "write_report")>>},
          long_terms \in {<<LongTerm_generate_all_reports(reading, "none"),
                            LongTerm_generate_all_reports(reading, "write"),
                            LongTerm_generate_all_reports(reading, "write_report")>>},
          saved \in {save_all_analysis_data(reading, "none")} :
       \E faults \in AllFaults :
       \E short_term \in {short_terms[FaultNo(faults.short_term)]},
          long_term \in {long_terms[FaultNo(faults.long_term)]},
          database \in {IF faults.database = "none" THEN saved
                        ELSE save_all_analysis_data(reading, faults.database)} :
       \E out \in {generate_all(save_to_database, short_term, long_term, database, faults)} :
           /\ lastCall' = [op |-> "generate_all",
                           save_to_database |-> save_to_database,
                           faults |-> faults,
                           short_term_ok |-> short_term.ret.success,
                           long_term_ok |-> long_term.ret.success,
                           database_ok |-> ~database.raised /\ database.ret.success,
                           steps |-> out.steps,
                           raised |-> FALSE,
                           ret |-> out.ret]
           /\ technical_indicators' =
                 IF out.saved THEN database.tables.technical_indicators
                 ELSE technical_indicators
           /\ investment_decisions' =
                 IF out.saved THEN database.tables.investment_decisions
                 ELSE investment_decisions
           /\ report_files' =
                 report_files \cup short_term.files
                    \cup (IF Len(out.steps) >= 2 THEN long_term.files ELSE {})
                    \cup (IF Len(out.steps) >= 3 /\ faults.index = "none"
                          THEN {<<"reports", "index.html">>} ELSE {})
                    \cup (IF out.ret.success
                          THEN {<<"reports", "all_reports_summary.json">>} ELSE {})
    /\ enginePc' = "done"
    /\ UNCHANGED <<stock_prices_history, feed, seen, today, lastSave, nCalls, workers>>

\* the price table as the price collector leaves it: a block of days at a time
HistoryBlock == MinLongTermRows \div 2

RECURSIVE Bars(_, _, _)
Bars(shape, first, last) ==
    IF first > last THEN <<>> ELSE <<Bar(shape, first)>> \o Bars(shape, first + 1, last)

LoadHistory ==
    /\ enginePc = "run"
    /\ Len(stock_prices_history) + HistoryBlock <= MinLongTermRows
    /\ stock_prices_history' =
           stock_prices_history
              \o Bars(feed.shape, Len(stock_prices_history) + 1,
                      Len(stock_prices_history) + HistoryBlock)
    /\ lastCall' = [op |-> "none"]
    /\ UNCHANGED <<feed, enginePc, report_files, seen>>

AllReportsNext ==
    \/ LoadHistory /\ UNCHANGED <<storeVars, signalVars>>
    \/ (\E save_to_database \in BOOLEAN, reading \in Readings :
            GenerateAll(save_to_database, reading))
         /\ UNCHANGED signalVars

AllReportsInit ==
    /\ stock_prices_history = <<>>
    /\ feed \in [stock_code : {TrackedStock}, shape : Shapes, listed : BOOLEAN]
    /\ enginePc = "run"
    /\ lastCall = [op |-> "none"]
    /\ report_files = {}
    /\ seen = EmptyMap

InitAllReports == StoreInit /\ SignalsIdle /\ AllReportsInit

SpecAllReports == InitAllReports /\ [][AllReportsNext]_vars

StyleNext ==
    \/ InsertPrice(MaxRows) /\ UNCHANGED <<storeVars, signalVars>>
    \/ SkipDay /\ UNCHANGED <<storeVars, signalVars>>
    \/ (\E investment_style \in Styles, reading \in Readings :
            AnalyzeStockByStyle(investment_style, reading))
         /\ UNCHANGED signalVars
    \/ (\E generator \in Generators, reading \in Readings, fault \in ReportFaults :
            RunGenerateAllReports(generator, reading, fault))
         /\ UNCHANGED <<storeVars, signalVars>>

StyleInit ==
    /\ stock_prices_history = <<>>
    /\ feed \in [stock_code : {TrackedStock}, shape : Shapes, listed : {TRUE}]
    /\ enginePc = "run"
    /\ lastCall = [op |-> "none"]
    /\ report_files = {}
    /\ seen = EmptyMap

InitStyle == StoreInit /\ SignalsIdle /\ StyleInit

SpecStyle == InitStyle /\ [][StyleNext]_vars

\* C3: calculate_technical_indicators never raises; it returns an empty map for
\* fewer than 20 valid closes and a non-empty map for 20 or more.
C3_MinimumCloses ==
    lastCall.op = "calculate_technical_indicators" =>
        /\ ~lastCall.raised
        /\ lastCall.valid_closes < 20 => lastCall.ret = EmptyMap
        /\ lastCall.valid_closes >= 20 => lastCall.ret # EmptyMap

\* 20 valid closes of a table with missing cells: the map is there
C3_Witness ==
    /\ lastCall.op = "calculate_technical_indicators"
    /\ lastCall.valid_closes = 20
    /\ Len(stock_prices_history) > 20
    /\ "sma_20" \in DOMAIN lastCall.ret

\* a call made on a non-empty history with fewer than 20 valid closes
InsufficientData(op) ==
    lastCall.op = op /\ lastCall.frame /\ lastCall.valid_closes < 20

\* C4: on a non-empty history with fewer than 20 valid closes analyze_stock
\* returns an empty result, generate_single_report writes no file and returns
\* False, and generate_all_reports lists the stock in failed_stocks.
C4_InsufficientDataSkipped ==
    /\ InsufficientData("analyze_stock") => lastCall.ret = EmptyMap
    /\ (InsufficientData("generate_single_report") /\ lastCall.stock_code = TrackedStock)
          => (~lastCall.ret /\ ~lastCall.wrote)
    /\ (InsufficientData("generate_all_reports") /\ lastCall.ret.success)
          => (\E i \in 1..Len(lastCall.ret.failed_stocks) :
                 lastCall.ret.failed_stocks[i] = TrackedStock)

-----------------------------------------------------------------------------
(* The keys of the long-horizon indicator map *)

LongReturnedIndicators == lastCall.op = "calculate_long_term_indicators"

Window20Family ==
    {"sma_20", "ema_20", "rsi_14", "bb_upper_20", "bb_middle_20", "bb_lower_20",
     "price_change_20d", "trend_strength", "trend_direction"}

\* the keys of a window of W periods
WindowKeys(W) ==
    CASE W = 50 -> {"sma_50", "ema_50", "price_change_50d", "volatility_50d"}
      [] W = 100 -> {"sma_100", "ema_100", "price_change_100d", "volatility_100d"}
      [] W = 200 -> {"sma_200", "ema_200", "price_change_200d", "volatility_200d"}

LongWindowKeys ==
    WindowKeys(50) \cup WindowKeys(100) \cup WindowKeys(200)
    \cup {"rsi_26", "rsi_52", "bb_upper_50", "bb_middle_50", "bb_lower_50",
          "macd_line_26", "macd_signal_26", "macd_histogram_26",
          "stoch_k_26", "stoch_d_26", "price_change_1y",
          "volume_sma_50", "volume_ratio_50"}

\* C5: calculate_long_term_indicators never raises, and for fewer than 50 valid
\* closes L it returns the reduced set: the window-20 family iff L >= 20, the
\* stochastic pair iff L >= 14, price_change_10d iff L >= 10, price_change_5d iff
\* L >= 5, and no long-window key.
C5_ReducedSet ==
    LongReturnedIndicators =>
        /\ ~lastCall.raised
        /\ lastCall.valid_closes < 50 =>
              LET keys == DOMAIN lastCall.ret
                  L == lastCall.valid_closes
              IN  /\ \A key \in Window20Family : key \in keys <=> L >= 20
                  /\ \A key \in {"stoch_k_14", "stoch_d_14"} : key \in keys <=> L >= 14
                  /\ "price_change_10d" \in keys <=> L >= 10
                  /\ "price_change_5d" \in keys <=> L >= 5
                  /\ keys \cap LongWindowKeys = {}

\* 15 valid closes: the stochastic pair without the window-20 family
C5_Witness ==
    /\ LongReturnedIndicators
    /\ lastCall.frame
    /\ lastCall.valid_closes = 15
    /\ "stoch_k_14" \in DOMAIN lastCall.ret
    /\ "sma_20" \notin DOMAIN lastCall.ret

\* C6: with 50 or more valid closes L, the keys of a window of W periods (sma_W,
\* ema_W, price_change_Wd, volatility_Wd, W in 50, 100, 200) are in the returned
\* map iff L >= W, rsi_52 iff L >= 52 and price_change_1y iff L >= 252, and nothing
\* is raised.
C6_WindowKeys ==
    (LongReturnedIndicators /\ lastCall.valid_closes >= 50) =>
        LET keys == DOMAIN lastCall.ret
            L == lastCall.valid_closes
        IN  /\ ~lastCall.raised
            /\ \A W \in {50, 100, 200} : \A key \in WindowKeys(W) : key \in keys <=> L >= W
            /\ "rsi_52" \in keys <=> L >= 52
            /\ "price_change_1y" \in keys <=> L >= 252

\* 60 valid closes: the 50-period keys without the 100-, 200- and 252-period keys
C6_Witness ==
    /\ LongReturnedIndicators
    /\ lastCall.valid_closes = 60
    /\ WindowKeys(50) \subseteq DOMAIN lastCall.ret
    /\ DOMAIN lastCall.ret \cap (WindowKeys(100) \cup WindowKeys(200) \cup {"price_change_1y"}) = {}

\* every cell of the price table holds a value
FullyValid ==
    \A i \in 1..Len(stock_prices_history) :
        \A c \in NumericCols : stock_prices_history[i][c] # None

\* the lengths the claims on shrinking data speak of
Compared(L1, L2) == 40 <= L1 /\ L1 <= L2 /\ L2 <= 252

\* C7: for fully valid series of lengths 40 <= L1 <= L2 <= 252 the map for L1 has
\* no more keys than the map for L2.
C7_KeyCountMonotone ==
    (LongReturnedIndicators /\ lastCall.frame /\ FullyValid) =>
        \A L1 \in DOMAIN seen :
            Compared(L1, lastCall.valid_closes) =>
                Cardinality(seen[L1]) <= Cardinality(DOMAIN lastCall.ret)

\* the 15 keys of 49 closes against the 19 keys of 50
C7_Witness ==
    /\ LongReturnedIndicators
    /\ FullyValid
    /\ lastCall.valid_closes = 50
    /\ 49 \in DOMAIN seen
    /\ Cardinality(seen[49]) = 15
    /\ Cardinality(DOMAIN lastCall.ret) = 19

\* C8 (as claimed): for lengths 40 <= L1 <= L2 <= 252 the keys returned for L1 are
\* a subset of the keys returned for L2.
C8_KeysSubset ==
    (LongReturnedIndicators /\ lastCall.frame) =>
        \A L1 \in DOMAIN seen :
            Compared(L1, lastCall.valid_closes) => seen[L1] \subseteq DOMAIN lastCall.ret

\* C8 (amended): for lengths 40 <= L1 <= L2 <= 252 that are both below 50 or both
\* at least 50, the keys returned for L1 are a subset of the keys returned for L2.
C8_KeysSubsetSameRegime ==
    (LongReturnedIndicators /\ lastCall.frame) =>
        \A L1 \in DOMAIN seen :
            (Compared(L1, lastCall.valid_closes) /\ (L1 < 50 <=> lastCall.valid_closes < 50))
                => seen[L1] \subseteq DOMAIN lastCall.ret

\* 60 closes against 100: the map of 100 has every key of 60 and more
C8_Witness ==
    /\ LongReturnedIndicators
    /\ lastCall.valid_closes = 100
    /\ 60 \in DOMAIN seen
    /\ seen[60] \subseteq DOMAIN lastCall.ret
    /\ seen[60] # DOMAIN lastCall.ret

-----------------------------------------------------------------------------
(* C12 *)

LongAnalysed == lastCall.op = "analyze_long_term_stock" /\ "error" \notin DOMAIN lastCall.ret.signals

\* C12: in the long analysis (engine, then classifier), when sma_50 and sma_200
\* are both available the trend label is the golden cross iff sma_50 > sma_200 and
\* the dead cross otherwise; when the 50/200 pair is not available (fewer than 200
\* closes) but at least 50 closes exist, the trend label is decided by the
\* SMA(20)-against-SMA(50) fallback and is not left undetermined.
C12_TrendSignal ==
    LongAnalysed =>
        LET indicators == lastCall.ret.indicators
            trend_signal == lastCall.ret.signals["trend_signal"]
            sma_50 == Get(indicators, "sma_50")
            sma_200 == Get(indicators, "sma_200")
        IN  /\ (sma_50 # None /\ sma_200 # None) =>
                  trend_signal = IF Gt(sma_50, sma_200) THEN <<"golden cross", "bullish">>
                                 ELSE <<"dead cross", "bearish">>
            /\ (lastCall.valid_closes >= 50 /\ lastCall.valid_closes < 200) =>
                  trend_signal \in {<<"short-term", "golden cross", "bullish">>,
                                    <<"short-term", "dead cross", "bearish">>}

-----------------------------------------------------------------------------
(* C13 *)

\* an analysis by style has returned a result
StyleAnalysed == lastCall.op = "analyze_stock_by_style" /\ lastCall.ret # EmptyMap

\* two scores kept as fractions are the same number
SameScore(a, b) == a.num * b.den = b.num * a.den

\* C13: the confidence score placed in the analysis result (_calculate_ai_confidence)
\* equals clamp(0.5 + 0.3 * completeness + (0.1 if volatility_20d < 0.2), 0, 1),
\* the score _calculate_confidence_score stores with the indicator snapshot of the
\* same map: the two agree.
C13_ConfidenceAgrees ==
    StyleAnalysed =>
        /\ SameScore(lastCall.ret.ai_analysis.confidence_score,
                     ConfidenceScore(lastCall.ret.indicators))
        /\ \A i \in 1..Len(technical_indicators) :
              SameScore(lastCall.ret.ai_analysis.confidence_score,
                        technical_indicators[i].confidence_score)

-----------------------------------------------------------------------------
(* C14 *)

\* the score of a map whose completeness is 1, in tenths: 0.5 + 0.3, and 0.1 more
\* when volatility_20d < 0.2
FullScoreTenths(indicators) ==
    LET volatility == Get(indicators, "volatility_20d")
    IN  IF volatility # None /\ Lt(volatility, Num(Hundredths(20))) THEN 9 ELSE 8

\* C14: an indicator whose latest value is undefined is not counted as valid in the
\* completeness ratio: when the map of the short-horizon engine holds at least one
\* undefined value, the confidence score stored with it is below the score of a
\* complete map (completeness < 1).
C14_UndefinedNotCounted ==
    (StyleAnalysed /\ lastCall.investment_style = "short_term") =>
        LET indicators == lastCall.ret.indicators
        IN  (\E k \in DOMAIN indicators : indicators[k] \in {None, NaN}) =>
                \A i \in 1..Len(technical_indicators) :
                    10 * technical_indicators[i].confidence_score.num
                        < FullScoreTenths(indicators) * technical_indicators[i].confidence_score.den

-----------------------------------------------------------------------------
(* C15 *)

RiskReturned == sigPc = "returned" /\ clsInput.classifier = "risk"

\* an indicator without a value: the key absent, None, or undefined at the latest date
Missing(x) == x \in {None, NaN}

\* x > t, for a number x and t in hundredths
Exceeds(x, t) ==
    \/ x.kind = "num" /\ x.v > t
    \/ x.kind = "ratio" /\ x.num * 100 > t * x.den

\* the bucket of x at the strict thresholds high and medium, in hundredths
Bucket(x, high, medium) ==
    IF Exceeds(x, high) THEN <<"high risk">>
    ELSE IF Exceeds(x, medium) THEN <<"medium risk">>
    ELSE <<"low risk">>

-----------------------------------------------------------------------------
(* C16 *)

\* the last n elements of a series
TailOf(S, n) ==
    Series(SubSeq(S.index, len(S) - n + 1, len(S)), SubSeq(S.values, len(S) - n + 1, len(S)))

\* two floats, quotients included, are the same number
SameFloat(a, b) ==
    IF a.kind = "ratio" /\ b.kind = "ratio" THEN a.num * b.den = b.num * a.den ELSE a = b

\* C16: for the long_term style on more than 252 valid closes, max_drawdown_1y is
\* the maximum drawdown of the trailing 252 closes only, whatever the earlier
\* closes are.
C16_TrailingDrawdown ==
    (StyleAnalysed /\ lastCall.investment_style = "long_term" /\ lastCall.valid_closes > 252) =>
        \E close_prices \in {dropna(get_stock_price_history(TrackedStock, DefaultDays, "none"),
                                     "close_price")} :
            SameFloat(lastCall.ret.indicators["max_drawdown_1y"],
                      _calculate_max_drawdown(TailOf(close_prices, 252)))

-----------------------------------------------------------------------------
(* C17 *)

\* a single latest value, or "no value"
Scalar(x) == x.kind \in {"num", "ratio", "inf", "nan", "None"}

\* C17: every value in the indicator map of calculate_technical_indicators_by_style,
\* for every style and every series length, is a single latest value or "no
\* value", never a whole time series.
C17_LatestValuesOnly ==
    StyleAnalysed => \A k \in DOMAIN lastCall.ret.indicators : Scalar(lastCall.ret.indicators[k])

-----------------------------------------------------------------------------
(* C18 *)

\* C18: running an analysis performs no persistence: the stored indicator and
\* decision records are the same at the return of analyze_stock_by_style as at
\* its start.
C18_AnalysisDoesNotPersist ==
    lastCall.op = "analyze_stock_by_style" =>
        /\ technical_indicators = lastCall.before_ti
        /\ investment_decisions = lastCall.before_id

\* C19: a generate_all_reports run of either generator whose summary file can
\* be written attempts every target stock exactly once, in the order of the
\* target list, whatever the single reports return, and returns a summary with
\* success = True, success_count + failed_count = total_stocks and
\* failed_stocks exactly the stocks whose single report returned False.
FailedAttempts(attempts) ==
    SelectSeq([i \in 1..Len(attempts) |-> attempts[i].stock_code],
              LAMBDA c : \E i \in 1..Len(attempts) :
                            attempts[i].stock_code = c /\ ~attempts[i].ret)

-----------------------------------------------------------------------------
(* C20 *)

\* C20: on a null input series (the stock has no price rows) the long-horizon
\* engine returns an empty indicator map and analyze_long_term_stock returns an
\* empty result, with no signals and no overall verdict in it.
C20_EmptyInputEmptyResult ==
    (lastCall.op \in {"calculate_long_term_indicators", "analyze_long_term_stock"}
        /\ ~lastCall.frame)
        => lastCall.ret = EmptyMap

-----------------------------------------------------------------------------
(* C21 *)

RsiPeriods == {7, 14, 26, 52}

RsiKey(period) ==
    CASE period = 7 -> "rsi_7" [] period = 14 -> "rsi_14"
      [] period = 26 -> "rsi_26" [] period = 52 -> "rsi_52"

\* the indicator maps the last call produced: the one of the analysis by style,
\* or those of the reports of a run
ObservedIndicators ==
    IF lastCall.op = "analyze_stock_by_style"
    THEN (IF lastCall.ret = EmptyMap THEN {} ELSE {lastCall.ret.indicators})
    ELSE IF lastCall.op = "generate_all_reports"
    THEN { lastCall.attempts[i].analysis_result.indicators :
           i \in { n \in 1..Len(lastCall.attempts) :
                     lastCall.attempts[n].analysis_result \notin {None, EmptyMap} } }
    ELSE {}

\* the valid closes of the tracked stock, in hundredths, oldest first
ClosesOfTable ==
    LET rows == SelectSeq(stock_prices_history, LAMBDA r : r.close_price # None)
    IN  [i \in 1..Len(rows) |-> rows[i].close_price.v]

\* the sum of the rises (sign 1) or of the falls (sign -1) between consecutive
\* closes over the last period positions of closes
WindowMove(closes, period, sign) ==
    LET n == Len(closes)
        move(i) == IF i <= 1 THEN 0
                   ELSE IF sign * (closes[i] - closes[i - 1]) > 0
                        THEN sign * (closes[i] - closes[i - 1]) ELSE 0
        sum[i \in Int] == IF i > n THEN 0 ELSE move(i) + sum[i + 1]
    IN  sum[n - period + 1]

\* C21: for every period used (7, 14, 26, 52) the latest RSI an engine returns
\* is undefined or lies in [0, 100]; with g the rises and l the falls of the
\* window, not both zero, it is 100 g / (g + l): 100 when l = 0, 0 when g = 0.
C21_RsiRange ==
    \A indicators \in ObservedIndicators :
    \A period \in RsiPeriods :
        RsiKey(period) \in DOMAIN indicators =>
            LET rsi == indicators[RsiKey(period)]
                closes == ClosesOfTable
                g == WindowMove(closes, period, 1)
                l == WindowMove(closes, period, -1)
            IN  \/ rsi \in {None, NaN} /\ (Len(closes) < period \/ (g = 0 /\ l = 0))
                \/ /\ rsi.kind = "num"
                   /\ rsi.v >= 0 /\ rsi.v <= Units(100)
                   /\ Len(closes) >= period /\ g + l > 0
                   /\ rsi.v = (Units(100) * g) \div (g + l)
                   /\ (l = 0 => rsi.v = Units(100))
                   /\ (g = 0 => rsi.v = 0)

\* a long-term report whose RSI(26) and RSI(52) lie strictly inside the range
C21_Witness ==
    /\ lastCall.op = "generate_all_reports"
    /\ \E indicators \in ObservedIndicators :
          /\ {"rsi_26", "rsi_52"} \subseteq DOMAIN indicators
          /\ \A k \in {"rsi_26", "rsi_52"} :
                 /\ indicators[k] \notin {None, NaN}
                 /\ indicators[k].v > 0 /\ indicators[k].v < Units(100)

-----------------------------------------------------------------------------
(* C22 *)

\* C22: the latest stochastic %K and %D the short-horizon engine returns are
\* undefined or lie in [0, 100], on every price table the data model admits.
C22_StochasticRange ==
    lastCall.op = "calculate_technical_indicators" =>
        \A k \in {"stoch_k", "stoch_d"} \cap DOMAIN lastCall.ret :
            LET x == lastCall.ret[k]
            IN  \/ x \in {None, NaN}
                \/ x.kind = "num" /\ x.v >= 0 /\ x.v <= Units(100)

-----------------------------------------------------------------------------
(* C23 *)

\* C23: every signal map either classifier returns on a non-error path holds
\* the integer counters buy_count and sell_count and a label overall_signal, and
\* overall_signal is the verdict of comparing the two counters (the positive
\* verdict iff buy_count > sell_count, the negative one iff sell_count >
\* buy_count, neutral iff they are equal).
C23_CountersAndVerdict ==
    (ShortReturned \/ LongReturned) =>
        /\ {"buy_count", "sell_count", "overall_signal"} \subseteq DOMAIN signals
        /\ signals["buy_count"] \in Nat
        /\ signals["sell_count"] \in Nat
        /\ (signals["overall_signal"] \in {<<"buy", "recommended">>, <<"bullish">>}
               <=> signals["buy_count"] > signals["sell_count"])
        /\ (signals["overall_signal"] \in {<<"sell", "recommended">>, <<"bearish">>}
               <=> signals["sell_count"] > signals["buy_count"])
        /\ (signals["overall_signal"] = <<"neutral">>
               <=> signals["buy_count"] = signals["sell_count"])

-----------------------------------------------------------------------------
(* C24 *)

\* C24: after a successful analyze_stock_by_style in one of the styles the
\* analyzer specializes (day_trading, swing_trading, long_term), on a store that
\* held no record for (stock, today, style) and with no database fault, the
\* store holds exactly one indicator record and exactly one decision record
\* for that key.
C24_OneSnapshotPerAnalysis ==
    (StyleAnalysed
        /\ lastCall.investment_style \in {"day_trading", "swing_trading", "long_term"}
        /\ lastCall.faults = <<"none", "none">>) =>
        LET key == Key(lastCall.ret.stock_code, today, lastCall.investment_style)
        IN  (~Existing(lastCall.before_ti, key) /\ ~Existing(lastCall.before_id, key))
                => /\ Cardinality(RowsWithKey(technical_indicators, key)) = 1
                   /\ Cardinality(RowsWithKey(investment_decisions, key)) = 1

-----------------------------------------------------------------------------
(* C25 *)

\* the indicator map the long-horizon call returned
LongEngineReturned ==
    lastCall.op \in {"calculate_long_term_indicators", "analyze_long_term_stock"}

LongEngineIndicators ==
    IF lastCall.op = "analyze_long_term_stock" THEN lastCall.ret.indicators ELSE lastCall.ret

\* the sum of the last n of the closes
TailSum(closes, n) ==
    LET sum[i \in Int] == IF i > Len(closes) THEN 0 ELSE closes[i] + sum[i + 1]
    IN  sum[Len(closes) - n + 1]

\* C25: with L >= 50 valid closes the long-horizon engine computes
\* trend_strength and trend_direction against long_window, the largest W of 200,
\* 100, 50 with W <= L: trend_strength is |SMA(20) - SMA(long_window)| /
\* SMA(long_window) * 100 capped at 100 and never negative, trend_direction is
\* uptrend iff SMA(20) > SMA(long_window), downtrend iff it is smaller and flat
\* iff they are equal.
C25_TrendAgainstLongWindow ==
    (LongEngineReturned /\ lastCall.valid_closes >= 50) =>
        LET indicators == LongEngineIndicators
            closes == ClosesOfTable
            L == Len(closes)
            long_window == IF L >= 200 THEN 200 ELSE IF L >= 100 THEN 100 ELSE 50
            \* SMA(20) - SMA(long_window), times 20 * long_window
            diff == TailSum(closes, 20) * long_window - TailSum(closes, long_window) * 20
            \* |diff| / (SMA(long_window) * 20 * long_window) * 100, in hundredths
            ratio == CappedPercent(IF diff >= 0 THEN diff ELSE -diff,
                                   TailSum(closes, long_window) * 20)
        IN  /\ L = lastCall.valid_closes
            /\ {"trend_strength", "trend_direction"} \subseteq DOMAIN indicators
            /\ indicators["trend_strength"].kind = "num"
            /\ indicators["trend_strength"].v >= 0
            /\ indicators["trend_strength"].v <= Units(100)
            /\ indicators["trend_strength"].v = ratio
            /\ (indicators["trend_direction"] = Str("uptrend") <=> diff > 0)
            /\ (indicators["trend_direction"] = Str("downtrend") <=> diff < 0)
            /\ (indicators["trend_direction"] = Str("flat") <=> diff = 0)

\* 50 closes of a surging market: SMA(20) is more than twice SMA(50), an
\* uptrend whose strength is capped at 100
C25_Witness ==
    /\ LongEngineReturned
    /\ lastCall.valid_closes = 50
    /\ feed.shape = "surging"
    /\ LongEngineIndicators["trend_direction"] = Str("uptrend")
    /\ LongEngineIndicators["trend_strength"] = Num(Units(100))

-----------------------------------------------------------------------------
(* C26 *)

\* C26: when two save calls of the same method for the same (stock_code,
\* analysis_date, investment_style) key run at the same time, each in its own
\* session, with their checks and commits interleaved in any order, and both
\* return True, the table holds exactly one record for that key.
C26_ConcurrentSavesOneRecord ==
    \A w1 \in Workers : \A w2 \in Workers \ {w1} :
        (workers[w1].pc = "returned" /\ workers[w2].pc = "returned"
            /\ workers[w1].op \in SaveOps /\ workers[w2].op = workers[w1].op
            /\ workers[w2].key = workers[w1].key
            /\ workers[w1].ret /\ workers[w2].ret)
            => Cardinality(RowsWithKey(TableOf(workers[w1].op), workers[w1].key)) = 1

-----------------------------------------------------------------------------
(* C29 *)

\* C29: a caller that is outside a data-access call, or at the return of one,
\* holds no open session: every session a save, read or query method opened
\* is closed when the method returns, on the success path and on every error
\* path.
C29_SessionsClosed ==
    \A w \in Workers : workers[w].pc \in {"idle", "returned"} => workers[w].open = 0

-----------------------------------------------------------------------------
(* C27 *)

\* C27: generate_all runs its steps in the order short-term reports, long-term
\* reports, index page, database save; when the short-term step or the index
\* step fails it returns success = False and no later step runs, the database
\* save in particular; a failure of the long-term step or of the database
\* save stops nothing, and the result is success = True when the summary file
\* of the run can be written.
C27_StepOrder ==
    lastCall.op = "generate_all" =>
        /\ \E n \in 1..Len(AllSteps) : lastCall.steps = SubSeq(AllSteps, 1, n)
        /\ ~lastCall.short_term_ok
              => /\ lastCall.steps = <<"short_term">>
                 /\ ~lastCall.ret.success
                 /\ technical_indicators = <<>> /\ investment_decisions = <<>>
        /\ (lastCall.short_term_ok /\ lastCall.faults.index # "none")
              => /\ lastCall.steps = <<"short_term", "long_term", "index">>
                 /\ ~lastCall.ret.success
                 /\ technical_indicators = <<>> /\ investment_decisions = <<>>
        /\ (lastCall.short_term_ok /\ lastCall.faults.index = "none")
              => /\ lastCall.steps =
                        (IF lastCall.save_to_database THEN AllSteps
                         ELSE <<"short_term", "long_term", "index">>)
                 /\ (lastCall.faults.summary = "none" => lastCall.ret.success)

\* a run whose long-term step and database save both failed, every step was
\* run and the result is a success
C27_Witness ==
    /\ lastCall.op = "generate_all"
    /\ lastCall.short_term_ok /\ ~lastCall.long_term_ok /\ ~lastCall.database_ok
    /\ lastCall.save_to_database
    /\ lastCall.steps = AllSteps
    /\ lastCall.ret.success

-----------------------------------------------------------------------------
(* C30 *)

\* C30: with 20 <= L < 50 valid closes the long-horizon engine works in its
\* degraded mode, where the short and the long average compared are both
\* SMA(20): trend_strength is 0 and trend_direction is flat whatever the
\* prices are.
C30_DegradedTrendIsFlat ==
    (LongEngineReturned /\ lastCall.valid_closes >= 20 /\ lastCall.valid_closes < 50) =>
        /\ Len(ClosesOfTable) = lastCall.valid_closes
        /\ {"trend_strength", "trend_direction"} \subseteq DOMAIN LongEngineIndicators
        /\ LongEngineIndicators["trend_strength"] = Num(0)
        /\ LongEngineIndicators["trend_direction"] = Str("flat")

\* a market that went from 10 to 100 within the last twenty of its closes, in
\* degraded mode: SMA(20) is far above the older closes, the trend is flat
C30_Witness ==
    /\ LongEngineReturned
    /\ lastCall.valid_closes >= 40 /\ lastCall.valid_closes < 50
    /\ feed.shape = "surging"
    /\ ClosesOfTable[Len(ClosesOfTable)] > 5 * ClosesOfTable[1]
    /\ LongEngineIndicators["trend_strength"] = Num(0)
    /\ LongEngineIndicators["trend_direction"] = Str("flat")

-----------------------------------------------------------------------------
(* C28 *)

\* C28: the indicator snapshot and the decision snapshot of one analysis are
\* persisted all-or-nothing: after _save_analysis_to_database returns, under
\* any outcome of the two writes, an indicator snapshot exists for the key iff
\* a decision snapshot exists for the same key.
C28_SnapshotsAllOrNothing ==
    (lastCall.op = "analyze_stock_by_style" /\ lastCall.ret # EmptyMap) =>
        LET key == Key(lastCall.ret.stock_code, today, lastCall.ret.investment_style)
        IN  Existing(technical_indicators, key) <=> Existing(investment_decisions, key)

====
